---- MODULE Spec2Model ----
(***************************************************************************)
(* Model of cw-railspathmetrics: the Rails log parser, the path            *)
(* normalizer, the path excluder, the pairing aggregator and the analyzer  *)
(* that sequences them.                                                    *)
(*                                                                         *)
(* Go strings are TLA+ strings; a character is a string of length 1.       *)
(* float64 values are modelled as exact rationals <<num, den>> (rounding   *)
(* is not modelled).  A log entry is handled through a pointer: its addr   *)
(* field is the identity of the object the pointer refers to.              *)
(***************************************************************************)
EXTENDS Integers, Sequences, FiniteSets, TLC

VARIABLES
    pc,            \* position of the running call
    pathExcluder,  \* Aggregator.pathExcluder: the list of exclusion rules
    logEvents,     \* AnalyzeLogEvents: the messages of the log events handed in
    logEntries,    \* AnalyzeLogEvents: the entries parsed so far
    entries,       \* AnalyzeLogs / MatchRequestPairs: the entries handed in
    idx,           \* index of the loop that is running
    startedLogs,   \* MatchRequestPairs: map SessionID -> pending Started entry
    pairs,         \* MatchRequestPairs / AggregateMetrics: the request pairs
    pathMetrics,   \* AggregateMetrics: map normalized path -> metrics
    result,        \* the value returned by the call
    logLine,       \* ParseLogEntry / extractSessionID: the line handed in
    parsed,        \* ParseLogEntry / extractSessionID: the value returned
    finished,      \* the invocations on the Aggregator that have returned
    inputPath,     \* NormalizePath: the path handed in
    outputPath,    \* NormalizePath: the value returned
    simplified,    \* OutputJSON: the slice of simplified metrics
    written,       \* OutputJSON: the text written to the writer
    configPath,    \* runAnalyze: the value of the --config flag
    environ,       \* the environment variables XDG_CONFIG_HOME and HOME
    files,         \* the file system: path -> exclusion rules of the file there
    fetchArgs,     \* FilterLogEventsWithPagination: logGroupName, startTime, endTime
    api,           \* CloudWatch Logs: the outcomes of the FilterLogEvents calls
    requests,      \* CloudWatch Logs: the inputs of the calls made so far
    nextToken,     \* FilterLogEventsWithPagination: nextToken
    allEvents      \* FilterLogEventsWithPagination: allEvents

normalizerVars == <<inputPath, outputPath>>

outputVars == <<simplified, written>>

configVars == <<configPath, environ, files>>

cloudwatchVars == <<fetchArgs, api, requests, nextToken, allEvents>>

\* the variables the parser, the aggregator and AnalyzeLogEvents do not touch
otherVars == <<finished, normalizerVars, outputVars, configVars, cloudwatchVars>>

vars == <<pc, pathExcluder, logEvents, logEntries, entries, idx, startedLogs,
          pairs, pathMetrics, result, logLine, parsed, otherVars>>

\* the state of the components a call does not involve
NormalizerUnused == inputPath = "" /\ outputPath = ""

OutputUnused == simplified = <<>> /\ written = ""

ConfigUnused == configPath = "" /\ environ = <<>> /\ files = <<>>

CloudWatchUnused ==
    /\ fetchArgs = <<>>
    /\ api = <<>>
    /\ requests = <<>>
    /\ nextToken = <<>>
    /\ allEvents = <<>>

-----------------------------------------------------------------------------
(* Characters and strings                                                  *)

Digits == {"0", "1", "2", "3", "4", "5", "6", "7", "8", "9"}

HexLetters == {"a", "b", "c", "d", "e", "f", "A", "B", "C", "D", "E", "F"}

UpperLetters == {"A", "B", "C", "D", "E", "F", "G", "H", "I", "J", "K", "L", "M",
                 "N", "O", "P", "Q", "R", "S", "T", "U", "V", "W", "X", "Y", "Z"}

LowerLetters == {"a", "b", "c", "d", "e", "f", "g", "h", "i", "j", "k", "l", "m",
                 "n", "o", "p", "q", "r", "s", "t", "u", "v", "w", "x", "y", "z"}

\* \w of Go's regexp (RE2): [0-9A-Za-z_]
WordChars == Digits \cup UpperLetters \cup LowerLetters \cup {"_"}

\* \s of Go's regexp (RE2): [\t\n\f\r ]; the lines modelled hold blanks and tabs
SpaceChars == {" ", "\t"}

Char(s, i) == SubSeq(s, i, i)

DigitValue(c) ==
    CASE c = "0" -> 0 [] c = "1" -> 1 [] c = "2" -> 2 [] c = "3" -> 3
      [] c = "4" -> 4 [] c = "5" -> 5 [] c = "6" -> 6 [] c = "7" -> 7
      [] c = "8" -> 8 [] c = "9" -> 9

\* every character of s[from..to] is in class
AllIn(s, from, to, class) == \A i \in from..to : Char(s, i) \in class

\* strings.HasPrefix
HasPrefix(s, prefix) ==
    Len(prefix) <= Len(s) /\ SubSeq(s, 1, Len(prefix)) = prefix

\* the text at position i of s is lit
LitAt(s, i, lit) ==
    i + Len(lit) - 1 <= Len(s) /\ SubSeq(s, i, i + Len(lit) - 1) = lit

\* strings.Index, 1-based; 0 when sep does not occur
Index(s, sep) ==
    LET hits == {i \in 1..Len(s) : LitAt(s, i, sep)}
    IN IF hits = {} THEN 0 ELSE CHOOSE i \in hits : \A j \in hits : i <= j

\* the first position >= i of s whose character is not in class (Len(s)+1 if none)
RECURSIVE SkipClass(_, _, _)
SkipClass(s, i, class) ==
    IF i <= Len(s) /\ Char(s, i) \in class THEN SkipClass(s, i + 1, class) ELSE i

\* strings.TrimSpace
RECURSIVE TrimRight(_)
TrimRight(s) ==
    IF Len(s) > 0 /\ Char(s, Len(s)) \in SpaceChars
    THEN TrimRight(SubSeq(s, 1, Len(s) - 1)) ELSE s

TrimSpace(s) ==
    LET i == SkipClass(s, 1, SpaceChars) IN TrimRight(SubSeq(s, i, Len(s)))

\* strings.Split(s, sep) for a one-character sep
RECURSIVE Split(_, _)
Split(s, sep) ==
    LET k == Index(s, sep)
    IN IF k = 0 THEN <<s>>
       ELSE <<SubSeq(s, 1, k - 1)>> \o Split(SubSeq(s, k + 1, Len(s)), sep)

\* strings.Join
RECURSIVE Join(_, _)
Join(elems, sep) ==
    IF Len(elems) = 0 THEN ""
    ELSE IF Len(elems) = 1 THEN elems[1]
    ELSE elems[1] \o sep \o Join(Tail(elems), sep)

\* the decimal value of a string of digits
RECURSIVE DecimalValue(_)
DecimalValue(s) ==
    IF Len(s) = 0 THEN 0
    ELSE 10 * DecimalValue(SubSeq(s, 1, Len(s) - 1)) + DigitValue(Char(s, Len(s)))

-----------------------------------------------------------------------------
(* Normalizer                                                              *)

\* uuidRegex: ^[0-9a-fA-F]{8}-[0-9a-fA-F]{4}-[0-9a-fA-F]{4}-[0-9a-fA-F]{4}-[0-9a-fA-F]{12}$
uuidRegex(s) ==
    /\ Len(s) = 36
    /\ \A i \in 1..36 :
          IF i \in {9, 14, 19, 24} THEN Char(s, i) = "-"
          ELSE Char(s, i) \in Digits \cup HexLetters

\* hexIDRegex: ^[0-9a-fA-F]{6,}$
hexIDRegex(s) == Len(s) >= 6 /\ AllIn(s, 1, Len(s), Digits \cup HexLetters)

\* dateRegex: ^\d{4}-\d{2}-\d{2}$
dateRegex(s) ==
    /\ Len(s) = 10
    /\ \A i \in 1..10 :
          IF i \in {5, 8} THEN Char(s, i) = "-" ELSE Char(s, i) \in Digits

\* orderIDRegex: ^[A-Z]{3,}-[A-Z0-9]+-[0-9]+$|^[A-Z]{3,}-[0-9]+$
orderIDRegex(s) ==
    LET a == SkipClass(s, 1, UpperLetters)    \* the position after [A-Z]{3,}
    IN /\ a >= 4
       /\ a <= Len(s)
       /\ Char(s, a) = "-"
       /\ \/ a + 1 <= Len(s) /\ AllIn(s, a + 1, Len(s), Digits)
          \/ \E b \in a + 2 .. Len(s) - 1 :
                /\ Char(s, b) = "-"
                /\ AllIn(s, a + 1, b - 1, UpperLetters \cup Digits)
                /\ AllIn(s, b + 1, Len(s), Digits)

\* time: the number of days of a month
daysIn(month, year) ==
    IF month = 2
    THEN IF year % 4 = 0 /\ (year % 100 # 0 \/ year % 400 = 0) THEN 29 ELSE 28
    ELSE IF month \in {4, 6, 9, 11} THEN 30 ELSE 31

\* time.Parse accepts the date: month 1..12 and day 1..daysIn
ValidDate(year, month, day) ==
    /\ month >= 1 /\ month <= 12
    /\ day >= 1 /\ day <= daysIn(month, year)

isNumericID(segment) ==
    segment # "" /\ AllIn(segment, 1, Len(segment), Digits)

isUUID(segment) == uuidRegex(segment)

\* isHexID without the length check and the match of hexIDRegex
isHexIDAnyLength(segment) ==
    \E i \in 1..Len(segment) : Char(segment, i) \in HexLetters

isHexID(segment) ==
    IF Len(segment) < 6 THEN FALSE
    ELSE LET hasLetter == \E i \in 1..Len(segment) : Char(segment, i) \in HexLetters
         IN IF ~hasLetter THEN FALSE ELSE hexIDRegex(segment)

\* isDateFormat with the month checked and the day not
isDateFormatMonthOnly(segment) ==
    IF ~dateRegex(segment) THEN FALSE
    ELSE LET month == DecimalValue(SubSeq(segment, 6, 7))
         IN month >= 1 /\ month <= 12

\* time.Parse("2006-01-02", segment) on a segment that matches dateRegex
isDateFormat(segment) ==
    IF ~dateRegex(segment) THEN FALSE
    ELSE ValidDate(DecimalValue(SubSeq(segment, 1, 4)),
                   DecimalValue(SubSeq(segment, 6, 7)),
                   DecimalValue(SubSeq(segment, 9, 10)))

isOrderID(segment) == orderIDRegex(segment)

shouldNormalize(segment) ==
    \/ isNumericID(segment)
    \/ isUUID(segment)
    \/ isHexID(segment)
    \/ isDateFormat(segment)
    \/ isOrderID(segment)

\* getPlaceholder without the date check
getPlaceholderAlwaysID(segment) == ":id"

getPlaceholder(segment) == IF isDateFormat(segment) THEN ":date" ELSE ":id"

\* NormalizePath with the query string put back after the normalized path
NormalizePathKeepsQuery(path) ==
    LET k         == Index(path, "?")
        pathPart  == IF k = 0 THEN path ELSE SubSeq(path, 1, k - 1)
        queryPart == IF k = 0 THEN "" ELSE SubSeq(path, k, Len(path))
        segments  == Split(pathPart, "/")
        out       == [i \in 1..Len(segments) |->
                        IF segments[i] = "" THEN segments[i]
                        ELSE IF shouldNormalize(segments[i])
                             THEN getPlaceholder(segments[i])
                             ELSE segments[i]]
    IN Join(out, "/") \o queryPart

\* NormalizePath with the empty segments dropped before the join
NormalizePathDropsEmpty(path) ==
    LET parts    == Split(path, "?")
        pathPart == parts[1]
        segments == Split(pathPart, "/")
        out      == [i \in 1..Len(segments) |->
                       IF segments[i] = "" THEN segments[i]
                       ELSE IF shouldNormalize(segments[i])
                            THEN getPlaceholder(segments[i])
                            ELSE segments[i]]
    IN Join(SelectSeq(out, LAMBDA g : g # ""), "/")

NormalizePath(path) ==
    LET parts    == Split(path, "?")      \* SplitN(path, "?", 2): only parts[0] is read
        pathPart == parts[1]
        segments == Split(pathPart, "/")
        out      == [i \in 1..Len(segments) |->
                       IF segments[i] = "" THEN segments[i]
                       ELSE IF shouldNormalize(segments[i])
                            THEN getPlaceholder(segments[i])
                            ELSE segments[i]]
    IN Join(out, "/")

-----------------------------------------------------------------------------
(* float64, as exact rationals <<numerator, denominator>> in lowest terms  *)

RECURSIVE GCD(_, _)
GCD(a, b) == IF b = 0 THEN a ELSE GCD(b, a % b)

Rat(n, d) == LET g == GCD(n, d) IN IF g = 0 THEN <<0, 1>> ELSE <<n \div g, d \div g>>

RatOfInt(n) == <<n, 1>>

RatAdd(x, y) == Rat(x[1] * y[2] + y[1] * x[2], x[2] * y[2])

RatMulInt(x, n) == Rat(x[1] * n, x[2])

RatDivInt(x, n) == Rat(x[1], x[2] * n)

RatPositive(x) == x[1] > 0

-----------------------------------------------------------------------------
(* Maps                                                                    *)

EmptyMap == [k \in {} |-> 0]

MapPut(m, k, v) == [x \in DOMAIN m \cup {k} |-> IF x = k THEN v ELSE m[x]]

MapDelete(m, k) == [x \in DOMAIN m \ {k} |-> m[x]]

\* m[k]++ on a Go map[...]int: a missing key reads as 0
MapIncrement(m, k) == MapPut(m, k, (IF k \in DOMAIN m THEN m[k] ELSE 0) + 1)

-----------------------------------------------------------------------------
(* Path exclusion                                                          *)

\* an ExclusionRule; an unset field is ""
ExclusionRule(exact, prefix, pattern) ==
    [Exact |-> exact, Prefix |-> prefix, Pattern |-> pattern]

\* the number of characters of s from position j on that are in class or,
\* for the dot, that are no newline
RECURSIVE RunLength(_, _, _, _)
RunLength(s, j, class, dot) ==
    IF j <= Len(s) /\ (IF dot THEN Char(s, j) # "\n" ELSE Char(s, j) \in class)
    THEN 1 + RunLength(s, j + 1, class, dot)
    ELSE 0

\* does pattern from position i on match s at position j; the atoms of the
\* patterns of the modelled configurations are a literal character, the dot
\* and the class [0-9], each alone or followed by + or *
RECURSIVE RegexpMatchHere(_, _, _, _)
RegexpMatchHere(pattern, i, s, j) ==
    IF i > Len(pattern) THEN TRUE
    ELSE LET class  == IF LitAt(pattern, i, "[0-9]") THEN Digits
                       ELSE {Char(pattern, i)}
             next   == IF LitAt(pattern, i, "[0-9]") THEN i + 5 ELSE i + 1
             repeat == IF next <= Len(pattern) /\ Char(pattern, next) \in {"+", "*"}
                       THEN Char(pattern, next) ELSE ""
             run    == RunLength(s, j, class, Char(pattern, i) = ".")
         IN IF repeat = ""
            THEN run >= 1 /\ RegexpMatchHere(pattern, next, s, j + 1)
            ELSE \E k \in (IF repeat = "+" THEN 1 ELSE 0)..run :
                    RegexpMatchHere(pattern, next + 1, s, j + k)

\* regexp.MatchString for the patterns the modelled configurations use: the
\* pattern matches somewhere in path, at the start when it begins with ^
RegexpMatchString(pattern, path) ==
    IF HasPrefix(pattern, "^")
    THEN RegexpMatchHere(pattern, 2, path, 1)
    ELSE \E j \in 1..(Len(path) + 1) : RegexpMatchHere(pattern, 1, path, j)

\* NewDefaultPathExcluder: the rules of the default configuration
NewDefaultPathExcluder == <<ExclusionRule("", "/rails/active_storage", "")>>

\* RuleMatches with the prefix of a rule compared with the whole path
RuleMatchesPrefixAsExact(rule, path) ==
    \/ rule.Exact # "" /\ rule.Exact = path
    \/ rule.Prefix # "" /\ rule.Prefix = path
    \/ rule.Pattern # "" /\ RegexpMatchString(rule.Pattern, path)

\* does rule match path (the body of the loop of ShouldExclude); the excluder
\* holds the compiled expression of every rule that has a pattern
RuleMatches(rule, path) ==
    \/ rule.Exact # "" /\ rule.Exact = path
    \/ rule.Prefix # "" /\ HasPrefix(path, rule.Prefix)
    \/ rule.Pattern # "" /\ RegexpMatchString(rule.Pattern, path)

\* PathExcluder.ShouldExclude: the loop returns true at the first rule that matches
RECURSIVE ShouldExcludeFrom(_, _, _)
ShouldExcludeFrom(rules, i, path) ==
    IF i > Len(rules) THEN FALSE
    ELSE IF RuleMatches(rules[i], path) THEN TRUE
    ELSE ShouldExcludeFrom(rules, i + 1, path)

ShouldExclude(rules, path) == ShouldExcludeFrom(rules, 1, path)

-----------------------------------------------------------------------------
(* Log entries                                                             *)

\* the zero time.Time
ZeroTime == [year |-> 1, month |-> 1, day |-> 1, hour |-> 0, minute |-> 0,
             second |-> 0, fraction |-> "", zone |-> "+0000"]

\* a models.LogEntry with every field at its zero value; addr is the identity
\* of the object (entries are handled through pointers)
ZeroEntry(addr) ==
    [addr |-> addr, Type |-> "", Method |-> "", Path |-> "", SessionID |-> "",
     Timestamp |-> ZeroTime, StatusCode |-> 0, StatusText |-> "", Duration |-> 0,
     ViewDuration |-> RatOfInt(0), DBDuration |-> RatOfInt(0)]

Nil == [nil |-> TRUE]

-----------------------------------------------------------------------------
(* Parser                                                                  *)

\* the first position >= i of s whose character is in stops (Len(s)+1 if none)
RECURSIVE SkipUntil(_, _, _)
SkipUntil(s, i, stops) ==
    IF i <= Len(s) /\ Char(s, i) \notin stops THEN SkipUntil(s, i + 1, stops) ELSE i

\* startedLogRegex: ^Started\s+(\w+)\s+"([^"]+)"\s+for\s+[\d.]+\s+at\s+(.+)$
\* The submatches <<method, path, timestamp>>, or <<>> when the line does not match.
startedLogRegex(s) ==
    LET a == SkipClass(s, 8, SpaceChars)              \* start of (\w+)
        b == SkipClass(s, a, WordChars)               \* end of (\w+)
        c == SkipClass(s, b, SpaceChars)              \* the opening quote
        d == SkipUntil(s, c + 1, {"\""})              \* the closing quote
        e == SkipClass(s, d + 1, SpaceChars)          \* for
        f == SkipClass(s, e + 3, SpaceChars)          \* start of [\d.]+
        g == SkipClass(s, f, Digits \cup {"."})       \* end of [\d.]+
        h == SkipClass(s, g, SpaceChars)              \* at
        k == SkipClass(s, h + 2, SpaceChars)          \* start of (.+)
        \* \s+ gives a character back when it ran to the end of the line
        t == IF k > Len(s) THEN Len(s) ELSE k
    IN IF /\ LitAt(s, 1, "Started")
          /\ a > 8 /\ b > a /\ c > b
          /\ LitAt(s, c, "\"") /\ d > c + 1 /\ LitAt(s, d, "\"")
          /\ e > d + 1 /\ LitAt(s, e, "for")
          /\ f > e + 3 /\ g > f /\ h > g
          /\ LitAt(s, h, "at")
          /\ k > h + 2 /\ t > h + 2
       THEN <<SubSeq(s, a, b - 1), SubSeq(s, c + 1, d - 1), SubSeq(s, t, Len(s))>>
       ELSE <<>>

\* completedLogRegex: ^Completed\s+(\d+)\s+([^i]+)\s+in\s+(\d+)ms
\* ([^i]+) cannot run over an i: the "in" of the match is at the first i after
\* the status code, and the text between the code and that "in" is \s+([^i]+)\s+.
\* The submatches <<code, status text with its surrounding blanks, duration>>,
\* or <<>> when the line does not match.
completedLogRegex(s) ==
    LET a == SkipClass(s, 10, SpaceChars)             \* start of (\d+)
        b == SkipClass(s, a, Digits)                  \* end of (\d+)
        f == SkipUntil(s, b, {"i"})                   \* in
        g == SkipClass(s, f + 2, SpaceChars)          \* start of (\d+)
        h == SkipClass(s, g, Digits)                  \* end of (\d+)
    IN IF /\ LitAt(s, 1, "Completed")
          /\ a > 10 /\ b > a
          /\ LitAt(s, f, "in")
          /\ f - 1 >= b + 2
          /\ Char(s, b) \in SpaceChars /\ Char(s, f - 1) \in SpaceChars
          /\ g > f + 2 /\ h > g
          /\ LitAt(s, h, "ms")
       THEN <<SubSeq(s, a, b - 1), SubSeq(s, b, f - 1), SubSeq(s, g, h - 1)>>
       ELSE <<>>

\* the leftmost match of  <label>\s+([\d.]+)ms  in s: <<submatch>>, or <<>>
DurationSubmatch(s, label) ==
    LET n       == Len(label)
        numAt(i) == SkipClass(s, i + n, SpaceChars)
        endAt(i) == SkipClass(s, numAt(i), Digits \cup {"."})
        hits    == {i \in 1..Len(s) : /\ LitAt(s, i, label)
                                      /\ numAt(i) > i + n
                                      /\ endAt(i) > numAt(i)
                                      /\ LitAt(s, endAt(i), "ms")}
    IN IF hits = {} THEN <<>>
       ELSE LET i == CHOOSE x \in hits : \A y \in hits : x <= y
            IN <<SubSeq(s, numAt(i), endAt(i) - 1)>>

\* viewDurationRegex: Views:\s+([\d.]+)ms
viewDurationRegex(s) == DurationSubmatch(s, "Views:")

\* dbDurationRegex: ActiveRecord:\s+([\d.]+)ms
dbDurationRegex(s) == DurationSubmatch(s, "ActiveRecord:")

\* sessionIDRegex: \[([^\]]+)\]$
\* The match ends at the end of the line; it starts at the leftmost [ that has
\* at least one character and no ] between it and the last character.
\* <<submatch>>, or <<>> when the line does not match.
sessionIDRegex(s) ==
    LET n    == Len(s)
        hits == {i \in 1..(n - 2) : /\ Char(s, i) = "["
                                    /\ \A j \in (i + 1)..(n - 1) : Char(s, j) # "]"}
    IN IF n >= 3 /\ Char(s, n) = "]" /\ hits # {}
       THEN LET i == CHOOSE x \in hits : \A y \in hits : x <= y
            IN <<SubSeq(s, i + 1, n - 1)>>
       ELSE <<>>

\* extractSessionID
extractSessionID(line) ==
    LET matches == sessionIDRegex(line)
    IN IF Len(matches) > 0 THEN matches[1] ELSE ""

RECURSIVE DigitsGreater(_, _)
\* a > b for two strings of digits of the same length
DigitsGreater(a, b) ==
    IF Len(a) = 0 THEN FALSE
    ELSE IF DigitValue(Char(a, 1)) # DigitValue(Char(b, 1))
         THEN DigitValue(Char(a, 1)) > DigitValue(Char(b, 1))
         ELSE DigitsGreater(SubSeq(a, 2, Len(a)), SubSeq(b, 2, Len(b)))

\* strconv.Atoi on a string of digits fails when the value exceeds the largest int
AtoiFails(digits) ==
    LET z   == SkipClass(digits, 1, {"0"})
        sig == SubSeq(digits, z, Len(digits))
    IN \/ Len(sig) > 19
       \/ Len(sig) = 19 /\ DigitsGreater(sig, "9223372036854775807")

RECURSIVE Pow10(_)
Pow10(n) == IF n = 0 THEN 1 ELSE 10 * Pow10(n - 1)

\* strconv.ParseFloat on a string of digits and dots; err when it is no number
\* (no digit, or more than one dot)
ParseFloat(text) ==
    LET dots  == {i \in 1..Len(text) : Char(text, i) = "."}
        dot   == IF dots = {} THEN Len(text) + 1 ELSE CHOOSE i \in dots : TRUE
        whole == SubSeq(text, 1, dot - 1)
        frac  == SubSeq(text, dot + 1, Len(text))
        den   == Pow10(Len(frac))
    IN IF Cardinality(dots) > 1 \/ Len(whole) + Len(frac) = 0
       THEN [err |-> TRUE, value |-> RatOfInt(0)]
       ELSE [err |-> FALSE,
             value |-> Rat(DecimalValue(whole) * den + DecimalValue(frac), den)]

\* time.Parse reads one or two digits (fixed: exactly two) at position i of s:
\* the position after them, or 0 when there is no number
GetNum(s, i, fixed) ==
    IF i > Len(s) \/ Char(s, i) \notin Digits THEN 0
    ELSE IF i + 1 > Len(s) \/ Char(s, i + 1) \notin Digits
         THEN IF fixed THEN 0 ELSE i + 1
         ELSE i + 2

\* parseTimestamp: time.Parse("2006-01-02 15:04:05 -0700", s)
parseTimestamp(s) ==
    LET okYear == Len(s) >= 4 /\ AllIn(s, 1, 4, Digits)
        m1 == 6                                          \* month, after "-"
        m2 == GetNum(s, m1, TRUE)
        d1 == m2 + 1                                     \* day, after "-"
        d2 == GetNum(s, d1, TRUE)
        h1 == SkipClass(s, d2, {" "})                    \* hour, after the blanks
        h2 == GetNum(s, h1, FALSE)
        n1 == h2 + 1                                     \* minute, after ":"
        n2 == GetNum(s, n1, TRUE)
        s1 == n2 + 1                                     \* second, after ":"
        s2 == GetNum(s, s1, TRUE)
        \* a fractional second the layout does not name is read all the same
        hasFrac == /\ s2 + 1 <= Len(s)
                   /\ Char(s, s2) \in {".", ","}
                   /\ Char(s, s2 + 1) \in Digits
        f2 == IF hasFrac THEN SkipClass(s, s2 + 1, Digits) ELSE s2
        z1 == SkipClass(s, f2, {" "})                    \* zone, after the blanks
        year   == DecimalValue(SubSeq(s, 1, 4))
        month  == DecimalValue(SubSeq(s, m1, m2 - 1))
        day    == DecimalValue(SubSeq(s, d1, d2 - 1))
        hour   == DecimalValue(SubSeq(s, h1, h2 - 1))
        minute == DecimalValue(SubSeq(s, n1, n2 - 1))
        second == DecimalValue(SubSeq(s, s1, s2 - 1))
    IN IF /\ okYear
          /\ LitAt(s, 5, "-") /\ m2 # 0
          /\ LitAt(s, m2, "-") /\ d2 # 0
          /\ LitAt(s, d2, " ") /\ h2 # 0
          /\ LitAt(s, h2, ":") /\ n2 # 0
          /\ LitAt(s, n2, ":") /\ s2 # 0
          /\ LitAt(s, f2, " ")
          /\ z1 + 4 = Len(s)                             \* no extra text
          /\ Char(s, z1) \in {"+", "-"}
          /\ AllIn(s, z1 + 1, z1 + 4, Digits)
          /\ DecimalValue(SubSeq(s, z1 + 1, z1 + 2)) <= 24
          /\ DecimalValue(SubSeq(s, z1 + 3, z1 + 4)) <= 60
          /\ ValidDate(year, month, day)
          /\ hour < 24 /\ minute < 60 /\ second < 60
       THEN [err |-> FALSE,
             time |-> [year |-> year, month |-> month, day |-> day, hour |-> hour,
                       minute |-> minute, second |-> second,
                       fraction |-> IF hasFrac THEN SubSeq(s, s2 + 1, f2 - 1) ELSE "",
                       zone |-> SubSeq(s, z1, z1 + 4)]]
       ELSE [err |-> TRUE, time |-> ZeroTime]

\* an error value
Error(msg) == [msg |-> msg]

\* what ParseLogEntry returns: (entry, nil) or (nil, error)
Return(entry, err) == [entry |-> entry, err |-> err]

isStartedLog(line) == Len(startedLogRegex(line)) > 0

isCompletedLog(line) == Len(completedLogRegex(line)) > 0

\* parseStartedLog with the zero time in place of a timestamp that does not parse
parseStartedLogDefaultsTimestamp(line) ==
    LET matches   == startedLogRegex(line)
        timestamp == parseTimestamp(matches[3])
    IN Return([ZeroEntry(0) EXCEPT !.Type = "Started",
                                   !.Method = matches[1],
                                   !.Path = matches[2],
                                   !.Timestamp = timestamp.time], Nil)

\* parseStartedLog, on a line that isStartedLog
parseStartedLog(line) ==
    LET matches   == startedLogRegex(line)
        timestamp == parseTimestamp(matches[3])
    IN IF timestamp.err THEN Return(Nil, Error("failed to parse timestamp"))
       ELSE Return([ZeroEntry(0) EXCEPT !.Type = "Started",
                                        !.Method = matches[1],
                                        !.Path = matches[2],
                                        !.Timestamp = timestamp.time], Nil)

\* parseCompletedLog, on a line that isCompletedLog
parseCompletedLog(line) ==
    LET matches     == completedLogRegex(line)
        viewMatches == viewDurationRegex(line)
        dbMatches   == dbDurationRegex(line)
    IN IF AtoiFails(matches[1]) THEN Return(Nil, Error("invalid status code"))
       ELSE IF AtoiFails(matches[3]) THEN Return(Nil, Error("invalid duration"))
       ELSE Return([ZeroEntry(0) EXCEPT
                       !.Type = "Completed",
                       !.StatusCode = DecimalValue(matches[1]),
                       !.StatusText = TrimSpace(matches[2]),
                       !.Duration = DecimalValue(matches[3]),
                       !.SessionID = extractSessionID(line),
                       !.ViewDuration =
                           IF Len(viewMatches) > 0 /\ ~ParseFloat(viewMatches[1]).err
                           THEN ParseFloat(viewMatches[1]).value ELSE @,
                       !.DBDuration =
                           IF Len(dbMatches) > 0 /\ ~ParseFloat(dbMatches[1]).err
                           THEN ParseFloat(dbMatches[1]).value ELSE @], Nil)

\* ParseLogEntry with an empty entry, and no error, for an empty line
ParseLogEntryEmptyLineEntry(rawLine) ==
    LET line == TrimSpace(rawLine)
    IN IF line = "" THEN Return(ZeroEntry(0), Nil)
       ELSE IF isStartedLog(line) THEN parseStartedLog(line)
       ELSE IF isCompletedLog(line) THEN parseCompletedLog(line)
       ELSE Return(Nil, Error("unrecognized log format"))

\* ParseLogEntry
ParseLogEntry(rawLine) ==
    LET line == TrimSpace(rawLine)
    IN IF line = "" THEN Return(Nil, Error("empty log line"))
       ELSE IF isStartedLog(line) THEN parseStartedLog(line)
       ELSE IF isCompletedLog(line) THEN parseCompletedLog(line)
       ELSE Return(Nil, Error("unrecognized log format"))

-----------------------------------------------------------------------------
(* Aggregator                                                              *)

\* the locals of MatchRequestPairs
Matching(started, prs) == [startedLogs |-> started, pairs |-> prs]

\* MatchEntry without the delete of the matched Started log
MatchEntryKeepsStarted(started, prs, entry) ==
    IF entry.Type = "Started"
    THEN IF entry.SessionID # ""
         THEN Matching(MapPut(started, entry.SessionID, entry), prs)
         ELSE Matching(started, prs)
    ELSE IF entry.Type = "Completed" /\ entry.SessionID # ""
    THEN IF entry.SessionID \in DOMAIN started
         THEN Matching(started,
                       Append(prs, [Started   |-> started[entry.SessionID],
                                    Completed |-> entry]))
         ELSE Matching(started, prs)
    ELSE Matching(started, prs)

\* MatchEntry with a Started log stored only when none is pending for its
\* SessionID
MatchEntryKeepsFirstStarted(started, prs, entry) ==
    IF entry.Type = "Started"
    THEN IF entry.SessionID # "" /\ entry.SessionID \notin DOMAIN started
         THEN Matching(MapPut(started, entry.SessionID, entry), prs)
         ELSE Matching(started, prs)
    ELSE IF entry.Type = "Completed" /\ entry.SessionID # ""
    THEN IF entry.SessionID \in DOMAIN started
         THEN Matching(MapDelete(started, entry.SessionID),
                       Append(prs, [Started   |-> started[entry.SessionID],
                                    Completed |-> entry]))
         ELSE Matching(started, prs)
    ELSE Matching(started, prs)

\* MatchEntry without the checks for an empty SessionID
MatchEntryPairsEmptyToken(started, prs, entry) ==
    IF entry.Type = "Started"
    THEN Matching(MapPut(started, entry.SessionID, entry), prs)
    ELSE IF entry.Type = "Completed"
    THEN IF entry.SessionID \in DOMAIN started
         THEN Matching(MapDelete(started, entry.SessionID),
                       Append(prs, [Started   |-> started[entry.SessionID],
                                    Completed |-> entry]))
         ELSE Matching(started, prs)
    ELSE Matching(started, prs)

\* MatchEntry with the new pair put in front of the pairs
MatchEntryPrependsPair(started, prs, entry) ==
    IF entry.Type = "Started"
    THEN IF entry.SessionID # ""
         THEN Matching(MapPut(started, entry.SessionID, entry), prs)
         ELSE Matching(started, prs)
    ELSE IF entry.Type = "Completed" /\ entry.SessionID # ""
    THEN IF entry.SessionID \in DOMAIN started
         THEN Matching(MapDelete(started, entry.SessionID),
                       <<[Started   |-> started[entry.SessionID],
                          Completed |-> entry]>> \o prs)
         ELSE Matching(started, prs)
    ELSE Matching(started, prs)

\* MatchEntry with one pending slot for all sessions: a Completed log is
\* matched with the latest Started log, whatever its SessionID
MatchEntryByPosition(started, prs, entry) ==
    IF entry.Type = "Started"
    THEN IF entry.SessionID # ""
         THEN Matching(MapPut(started, "latest", entry), prs)
         ELSE Matching(started, prs)
    ELSE IF entry.Type = "Completed" /\ entry.SessionID # ""
    THEN IF "latest" \in DOMAIN started
         THEN Matching(MapDelete(started, "latest"),
                       Append(prs, [Started   |-> started["latest"],
                                    Completed |-> entry]))
         ELSE Matching(started, prs)
    ELSE Matching(started, prs)

\* one iteration of the loop of MatchRequestPairs, on entry: the map of the
\* pending Started logs and the pairs after it
MatchEntry(started, prs, entry) ==
    IF entry.Type = "Started"
    THEN IF entry.SessionID # ""
         THEN Matching(MapPut(started, entry.SessionID, entry), prs)
         ELSE Matching(started, prs)
    ELSE IF entry.Type = "Completed" /\ entry.SessionID # ""
    THEN IF entry.SessionID \in DOMAIN started
         THEN Matching(MapDelete(started, entry.SessionID),
                       Append(prs, [Started   |-> started[entry.SessionID],
                                    Completed |-> entry]))
         ELSE Matching(started, prs)
    ELSE Matching(started, prs)

\* the metrics AggregateMetrics creates for a path it has not seen
NewPathMetrics(normalizedPath) ==
    [Path |-> normalizedPath, Count |-> 0, AverageTime |-> RatOfInt(0),
     MinTime |-> 0, MaxTime |-> 0, StatusCodes |-> EmptyMap, Methods |-> EmptyMap,
     TotalViewDuration |-> RatOfInt(0), TotalDBDuration |-> RatOfInt(0)]

\* UpdateMetrics with the first-sample branch taken for the minimum only when
\* the duration is smaller than the zero the metrics were created with
UpdateMetricsMinFromZero(metrics, pair) ==
    LET count    == metrics.Count + 1
        duration == pair.Completed.Duration
    IN [metrics EXCEPT
          !.Count = count,
          !.MinTime = IF duration < @ THEN duration ELSE @,
          !.MaxTime = IF count = 1 THEN duration
                      ELSE IF duration > @ THEN duration ELSE @,
          !.AverageTime = IF count = 1 THEN RatOfInt(duration)
                          ELSE RatDivInt(RatAdd(RatMulInt(@, count - 1),
                                                RatOfInt(duration)), count),
          !.StatusCodes = MapIncrement(@, pair.Completed.StatusCode),
          !.Methods = MapIncrement(@, pair.Started.Method),
          !.TotalViewDuration = IF RatPositive(pair.Completed.ViewDuration)
                                THEN RatAdd(@, pair.Completed.ViewDuration) ELSE @,
          !.TotalDBDuration = IF RatPositive(pair.Completed.DBDuration)
                              THEN RatAdd(@, pair.Completed.DBDuration) ELSE @]

\* UpdateMetrics with the method counted only for the first sample of a path
UpdateMetricsCountsFirstMethod(metrics, pair) ==
    LET count    == metrics.Count + 1
        duration == pair.Completed.Duration
    IN [metrics EXCEPT
          !.Count = count,
          !.MinTime = IF count = 1 THEN duration
                      ELSE IF duration < @ THEN duration ELSE @,
          !.MaxTime = IF count = 1 THEN duration
                      ELSE IF duration > @ THEN duration ELSE @,
          !.AverageTime = IF count = 1 THEN RatOfInt(duration)
                          ELSE RatDivInt(RatAdd(RatMulInt(@, count - 1),
                                                RatOfInt(duration)), count),
          !.StatusCodes = MapIncrement(@, pair.Completed.StatusCode),
          !.Methods = IF count = 1 THEN MapIncrement(@, pair.Started.Method) ELSE @,
          !.TotalViewDuration = IF RatPositive(pair.Completed.ViewDuration)
                                THEN RatAdd(@, pair.Completed.ViewDuration) ELSE @,
          !.TotalDBDuration = IF RatPositive(pair.Completed.DBDuration)
                              THEN RatAdd(@, pair.Completed.DBDuration) ELSE @]

\* the update of a path's metrics by one pair (AggregateMetrics, "Update metrics")
UpdateMetrics(metrics, pair) ==
    LET count    == metrics.Count + 1
        duration == pair.Completed.Duration
    IN [metrics EXCEPT
          !.Count = count,
          !.MinTime = IF count = 1 THEN duration
                      ELSE IF duration < @ THEN duration ELSE @,
          !.MaxTime = IF count = 1 THEN duration
                      ELSE IF duration > @ THEN duration ELSE @,
          !.AverageTime = IF count = 1 THEN RatOfInt(duration)
                          ELSE RatDivInt(RatAdd(RatMulInt(@, count - 1),
                                                RatOfInt(duration)), count),
          !.StatusCodes = MapIncrement(@, pair.Completed.StatusCode),
          !.Methods = MapIncrement(@, pair.Started.Method),
          !.TotalViewDuration = IF RatPositive(pair.Completed.ViewDuration)
                                THEN RatAdd(@, pair.Completed.ViewDuration) ELSE @,
          !.TotalDBDuration = IF RatPositive(pair.Completed.DBDuration)
                              THEN RatAdd(@, pair.Completed.DBDuration) ELSE @]

\* AggregatePair with the exclusion evaluated on the normalized path
AggregatePairExcludesNormalized(metricsMap, rules, pair) ==
    LET normalizedPath == NormalizePath(pair.Started.Path)
    IN IF ShouldExclude(rules, normalizedPath) THEN metricsMap
       ELSE LET metrics == IF normalizedPath \in DOMAIN metricsMap
                           THEN metricsMap[normalizedPath]
                           ELSE NewPathMetrics(normalizedPath)
            IN MapPut(metricsMap, normalizedPath, UpdateMetrics(metrics, pair))

\* one iteration of the loop of AggregateMetrics, on pair
AggregatePair(metricsMap, rules, pair) ==
    IF ShouldExclude(rules, pair.Started.Path) THEN metricsMap
    ELSE LET normalizedPath == NormalizePath(pair.Started.Path)
             metrics == IF normalizedPath \in DOMAIN metricsMap
                        THEN metricsMap[normalizedPath]
                        ELSE NewPathMetrics(normalizedPath)
         IN MapPut(metricsMap, normalizedPath, UpdateMetrics(metrics, pair))

\* AnalysisResult with TotalLogs set to the number of pairs
AnalysisResultCountsPairs(totalLogs, metricsMap) ==
    [StartTime |-> "startTime", EndTime |-> "endTime",
     TotalLogs |-> Len(pairs), PathMetrics |-> metricsMap]

\* the models.AnalysisResult AnalyzeLogs returns (startTime and endTime are
\* handed through unchanged)
AnalysisResult(totalLogs, metricsMap) ==
    [StartTime |-> "startTime", EndTime |-> "endTime",
     TotalLogs |-> totalLogs, PathMetrics |-> metricsMap]

\* MatchRequestPairs on the first n entries of es: the locals after the loop
RECURSIVE MatchRequestPairs(_, _)
MatchRequestPairs(es, n) ==
    IF n = 0 THEN Matching(EmptyMap, <<>>)
    ELSE LET before == MatchRequestPairs(es, n - 1)
         IN MatchEntry(before.startedLogs, before.pairs, es[n])

\* AggregateMetrics on the first n pairs of prs
RECURSIVE AggregateMetrics(_, _, _)
AggregateMetrics(prs, n, rules) ==
    IF n = 0 THEN EmptyMap
    ELSE AggregatePair(AggregateMetrics(prs, n - 1, rules), rules, prs[n])

\* AnalyzeLogs as a function of the entries and the exclusion rules
AnalyzeLogs(es, rules) ==
    LET prs == MatchRequestPairs(es, Len(es)).pairs
    IN AnalysisResult(Len(es), AggregateMetrics(prs, Len(prs), rules))

\* MatchRequestPairs: the loop handles entries[idx]
MatchStep ==
    /\ pc = "match"
    /\ idx <= Len(entries)
    /\ LET after == MatchEntry(startedLogs, pairs, entries[idx])
       IN /\ startedLogs' = after.startedLogs
          /\ pairs' = after.pairs
    /\ idx' = idx + 1
    /\ UNCHANGED <<pc, pathExcluder, logEvents, logEntries, entries, pathMetrics,
                   result, logLine, parsed>>
    /\ UNCHANGED otherVars

\* MatchRequestPairs returns pairs; AnalyzeLogs hands them to AggregateMetrics
MatchReturn ==
    /\ pc = "match"
    /\ idx > Len(entries)
    /\ pc' = "aggregate"
    /\ idx' = 1
    /\ pathMetrics' = EmptyMap
    /\ UNCHANGED <<pathExcluder, logEvents, logEntries, entries, startedLogs, pairs,
                   result, logLine, parsed>>
    /\ UNCHANGED otherVars

\* AggregateMetrics: the loop handles pairs[idx]
AggregateStep ==
    /\ pc = "aggregate"
    /\ idx <= Len(pairs)
    /\ pathMetrics' = AggregatePair(pathMetrics, pathExcluder, pairs[idx])
    /\ idx' = idx + 1
    /\ UNCHANGED <<pc, pathExcluder, logEvents, logEntries, entries, startedLogs,
                   pairs, result, logLine, parsed>>
    /\ UNCHANGED otherVars

\* AggregateMetrics returns pathMetrics; AnalyzeLogs returns the result
AnalyzeLogsReturn ==
    /\ pc = "aggregate"
    /\ idx > Len(pairs)
    /\ pc' = "done"
    /\ result' = AnalysisResult(Len(entries), pathMetrics)
    /\ UNCHANGED <<pathExcluder, logEvents, logEntries, entries, idx, startedLogs,
                   pairs, pathMetrics, logLine, parsed>>
    /\ UNCHANGED otherVars

-----------------------------------------------------------------------------
(* Analyzer                                                                *)

\* the loop body of AnalyzeLogEvents with the invalid entry appended as well
AppendParsedKeepsInvalid(soFar, message, addr) ==
    LET got == ParseLogEntry(message)
    IN IF got.err # Nil THEN Append(soFar, ZeroEntry(addr))
       ELSE Append(soFar, [got.entry EXCEPT !.addr = addr])

\* the loop body of AnalyzeLogEvents: logEntries after the event with this
\* message; the entry ParseLogEntry allocates is the object addr
AppendParsed(soFar, message, addr) ==
    LET got == ParseLogEntry(message)
    IN IF got.err # Nil THEN soFar
       ELSE Append(soFar, [got.entry EXCEPT !.addr = addr])

\* ParseStep with the call given up at the first event that does not parse
ParseStepAbortsOnError ==
    /\ pc = "parse"
    /\ idx <= Len(logEvents)
    /\ IF ParseLogEntry(logEvents[idx]).err # Nil
       THEN /\ pc' = "done"
            /\ result' = Nil
            /\ UNCHANGED <<logEntries, idx>>
       ELSE /\ logEntries' = AppendParsed(logEntries, logEvents[idx], idx)
            /\ idx' = idx + 1
            /\ UNCHANGED <<pc, result>>
    /\ UNCHANGED <<pathExcluder, logEvents, entries, startedLogs, pairs,
                   pathMetrics, logLine, parsed>>
    /\ UNCHANGED otherVars

\* AnalyzeLogEvents: the loop handles logEvents[idx]
ParseStep ==
    /\ pc = "parse"
    /\ idx <= Len(logEvents)
    /\ logEntries' = AppendParsed(logEntries, logEvents[idx], idx)
    /\ idx' = idx + 1
    /\ UNCHANGED <<pc, pathExcluder, logEvents, entries, startedLogs, pairs,
                   pathMetrics, result, logLine, parsed>>
    /\ UNCHANGED otherVars

\* the entries AnalyzeLogEvents parses from the first n messages
RECURSIVE ParsedEntries(_, _)
ParsedEntries(messages, n) ==
    IF n = 0 THEN <<>>
    ELSE AppendParsed(ParsedEntries(messages, n - 1), messages[n], n)

\* AnalyzeLogEvents as a function of the messages and the exclusion rules
AnalyzeLogEvents(messages, rules) ==
    AnalyzeLogs(ParsedEntries(messages, Len(messages)), rules)

\* AnalyzeLogEvents calls AnalyzeLogs with logEntries and returns its result
AnalyzeLogEventsReturn ==
    /\ pc = "parse"
    /\ idx > Len(logEvents)
    /\ pc' = "done"
    /\ entries' = logEntries
    /\ LET matching == MatchRequestPairs(logEntries, Len(logEntries))
       IN /\ startedLogs' = matching.startedLogs
          /\ pairs' = matching.pairs
    /\ pathMetrics' = AnalyzeLogs(logEntries, pathExcluder).PathMetrics
    /\ result' = AnalyzeLogs(logEntries, pathExcluder)
    /\ UNCHANGED <<pathExcluder, logEvents, logEntries, idx, logLine, parsed>>
    /\ UNCHANGED otherVars

-----------------------------------------------------------------------------
(* Inputs                                                                  *)

MaxEntries == 4

MaxPairs == 3

\* all sequences over S of length at most n
SeqsUpTo(S, n) == UNION {[1..k -> S] : k \in 0..n}

Started(method, path, sessionID) ==
    [ZeroEntry(0) EXCEPT !.Type = "Started", !.Method = method, !.Path = path,
                         !.SessionID = sessionID]

Completed(statusCode, statusText, duration, sessionID) ==
    [ZeroEntry(0) EXCEPT !.Type = "Completed", !.StatusCode = statusCode,
                         !.StatusText = statusText, !.Duration = duration,
                         !.SessionID = sessionID]

\* the entries handed to AnalyzeLogs are drawn from these
EntryPool ==
    { Started("GET", "/users/123", "s1"),
      Started("POST", "/users/456", "s1"),
      Started("GET", "/rails/active_storage/blobs/456", "s2"),
      Started("GET", "/posts/2023-01-15", ""),
      Completed(200, "OK", 150, "s1"),
      Completed(404, "Not Found", 100, "s2"),
      Completed(200, "OK", 50, "") }

\* the pairs handed to AggregateMetrics are drawn from these
PairPool ==
    { [Started |-> Started("GET", "/users/123", "a"),
       Completed |-> Completed(200, "OK", 150, "a")],
      [Started |-> Started("POST", "/users/456", "b"),
       Completed |-> Completed(201, "Created", 100, "b")],
      [Started |-> Started("GET", "/users/789?page=1", "c"),
       Completed |-> Completed(200, "OK", 225, "c")],
      [Started |-> Started("GET", "/health", "d"),
       Completed |-> Completed(200, "OK", 50, "d")],
      [Started |-> Started("GET", "/health?check=1", "e"),
       Completed |-> Completed(200, "OK", 75, "e")],
      [Started |-> Started("GET", "/rails/active_storage/blobs/456", "f"),
       Completed |-> Completed(200, "OK", 100, "f")],
      [Started |-> Started("GET", "/items/42", "g"),
       Completed |-> Completed(500, "Internal Server Error", 300, "g")] }

\* the exclusion rules of the configurations an Aggregator is built with
ExcluderPool ==
    { NewDefaultPathExcluder,
      <<ExclusionRule("/health", "", ""), ExclusionRule("", "/items/4", ""),
        ExclusionRule("", "", "^/rails/")>> }

MaxEvents == 3

\* a Started line of the Rails log
StartedLine(method, path, ip, timestamp) ==
    "Started " \o method \o " \"" \o path \o "\" for " \o ip \o " at " \o timestamp

\* a Completed line of the Rails log
CompletedLine(statusCode, statusText, duration) ==
    "Completed " \o statusCode \o " " \o statusText \o " in " \o duration \o "ms"

\* a line followed by its session token in brackets
WithToken(line, token) == line \o " [" \o token \o "]"

\* the log level prefix of the production format, with the session token
ProductionPrefix(token) ==
    "I, [2025-07-10T17:28:13.282478 #7]  INFO -- : [" \o token \o "] "

\* Started lines (without a token) whose timestamp is in the layout
StartedLines ==
    { StartedLine("GET", "/users/123", "127.0.0.1", "2023-01-01 12:00:00 +0900"),
      StartedLine("POST", "/api/users?page=1&limit=10", "192.168.1.1",
                  "2023-01-01 15:30:45 +0900"),
      StartedLine("GET", "/health", "127.0.0.1", "2025-07-10 17:28:13 +0900") }

\* Completed lines (without a token)
CompletedLines ==
    { CompletedLine("200", "OK", "150"),
      CompletedLine("200", "OK", "33") \o " (Views: 18.3ms | ActiveRecord: 8.0ms)",
      CompletedLine("404", "Not Found", "50"),
      CompletedLine("500", "Internal Server Error", "1000") }

\* other lines
OtherLines ==
    { StartedLine("GET", "/posts/1", "10.0.0.1", "2023-02-30 09:15:30 +0900"),
      StartedLine("GET", "/posts/1", "10.0.0.1", "2023-01-01T12:00:00Z"),
      StartedLine("GET", "/posts/1", "10.0.0.1", "2023-01-01 12:00:00"),
      CompletedLine("422", "Unprocessable Entity", "12"),
      "Started processing but not a Rails log",
      "Completed task but not a Rails log",
      "Random log entry that doesn't match Rails format",
      "" }

SessionTokens == {"abc123", "a1b2-c3d4_e5f6"}

LinePrefixes == {"", "  "} \cup {ProductionPrefix(t) : t \in SessionTokens}

LineSuffixes ==
    {"", " (Views: [test]) [session123]", " [abc123] retried"}
        \cup {WithToken("", t) : t \in SessionTokens}

\* the lines handed to ParseLogEntry and extractSessionID are drawn from these
LinePool ==
    {p \o b \o x : p \in LinePrefixes,
                   b \in StartedLines \cup CompletedLines \cup OtherLines,
                   x \in LineSuffixes}

\* the messages of the log events handed to AnalyzeLogEvents are drawn from these
MessagePool ==
    { WithToken(StartedLine("GET", "/users/123", "127.0.0.1",
                            "2023-01-01 12:00:00 +0900"), "abc123"),
      WithToken(CompletedLine("200", "OK", "150"), "abc123"),
      StartedLine("GET", "/users/123", "127.0.0.1", "2023-01-01 12:00:00 +0900"),
      CompletedLine("404", "Not Found", "50"),
      "Invalid log format",
      ProductionPrefix("abc123")
          \o StartedLine("GET", "/users/123", "127.0.0.1", "2025-07-10 17:28:13 +0900"),
      ProductionPrefix("abc123") \o CompletedLine("200", "OK", "33") }

\* distinct objects: the entry at position i has identity i
WithAddrs(es) == [i \in 1..Len(es) |-> [es[i] EXCEPT !.addr = i]]

PairsWithAddrs(ps) ==
    [i \in 1..Len(ps) |->
        [Started   |-> [ps[i].Started EXCEPT !.addr = 2 * i - 1],
         Completed |-> [ps[i].Completed EXCEPT !.addr = 2 * i]]]

-----------------------------------------------------------------------------
(* Aggregator.AnalyzeLogs on a slice of entries                            *)

Init ==
    /\ finished = <<>>
    /\ NormalizerUnused /\ OutputUnused /\ ConfigUnused /\ CloudWatchUnused
    /\ pc = "match"
    /\ pathExcluder \in ExcluderPool
    /\ \E es \in SeqsUpTo(EntryPool, MaxEntries) : entries = WithAddrs(es)
    /\ idx = 1
    /\ startedLogs = EmptyMap
    /\ pairs = <<>>
    /\ pathMetrics = EmptyMap
    /\ result = Nil
    /\ logEvents = <<>>
    /\ logEntries = <<>>
    /\ logLine = ""
    /\ parsed = Nil

Next ==
    \/ MatchStep
    \/ MatchReturn
    \/ AggregateStep
    \/ AnalyzeLogsReturn

Spec == Init /\ [][Next]_vars

-----------------------------------------------------------------------------
(* Aggregator.AggregateMetrics on a slice of pairs                         *)

\* AggregateMetrics returns pathMetrics
AggregateMetricsReturn ==
    /\ pc = "aggregate"
    /\ idx > Len(pairs)
    /\ pc' = "done"
    /\ result' = pathMetrics
    /\ UNCHANGED <<pathExcluder, logEvents, logEntries, entries, idx, startedLogs,
                   pairs, pathMetrics, logLine, parsed>>
    /\ UNCHANGED otherVars

InitAggregate ==
    /\ finished = <<>>
    /\ NormalizerUnused /\ OutputUnused /\ ConfigUnused /\ CloudWatchUnused
    /\ pc = "aggregate"
    /\ pathExcluder \in ExcluderPool
    /\ \E ps \in SeqsUpTo(PairPool, MaxPairs) : pairs = PairsWithAddrs(ps)
    /\ idx = 1
    /\ pathMetrics = EmptyMap
    /\ entries = <<>>
    /\ startedLogs = EmptyMap
    /\ result = Nil
    /\ logEvents = <<>>
    /\ logEntries = <<>>
    /\ logLine = ""
    /\ parsed = Nil

NextAggregate ==
    \/ AggregateStep
    \/ AggregateMetricsReturn

SpecAggregate == InitAggregate /\ [][NextAggregate]_vars

-----------------------------------------------------------------------------
(* Properties of the aggregator                                            *)

\* the sum of f[x] over the x of S
RECURSIVE SumOver(_, _)
SumOver(S, f) ==
    IF S = {} THEN 0
    ELSE LET x == CHOOSE y \in S : TRUE IN f[x] + SumOver(S \ {x}, f)

MinOf(S) == CHOOSE x \in S : \A y \in S : x <= y

MaxOf(S) == CHOOSE x \in S : \A y \in S : x >= y

\* the entries of the input between positions i and j (exclusive) hold a
\* Started entry with session token t
StartedBetween(i, j, t) ==
    \E k \in (i + 1)..(j - 1) :
        entries[k].Type = "Started" /\ entries[k].SessionID = t

\* C1: pairing exclusivity.  No Started entry is used in two pairs, and two
\* pairs of the same session token have a Started entry of that token between
\* their Completed entries: a second Completed entry with no Started entry in
\* between forms no pair.
C1_PairingExclusivity ==
    \A a, b \in DOMAIN pairs :
        a < b =>
          /\ pairs[a].Started.addr # pairs[b].Started.addr
          /\ pairs[a].Completed.SessionID = pairs[b].Completed.SessionID =>
                StartedBetween(pairs[a].Completed.addr, pairs[b].Completed.addr,
                               pairs[a].Completed.SessionID)

\* C1 witness: matching is over, a pair was formed, and a later Completed entry
\* of the same token, with no Started entry of that token in between, formed none
C1_Witness ==
    /\ pc = "done"
    /\ \E a \in DOMAIN pairs : \E j \in DOMAIN entries :
          /\ j > pairs[a].Completed.addr
          /\ entries[j].Type = "Completed"
          /\ entries[j].SessionID = pairs[a].Completed.SessionID
          /\ ~StartedBetween(pairs[a].Completed.addr, j, entries[j].SessionID)
          /\ \A b \in DOMAIN pairs : pairs[b].Completed.addr # j

SumOfCounts(metricsMap) ==
    SumOver(DOMAIN metricsMap, [r \in DOMAIN metricsMap |-> metricsMap[r].Count])

CompletedWithToken(es) ==
    {i \in DOMAIN es : es[i].Type = "Completed" /\ es[i].SessionID # ""}

\* C3: count conservation.  In the result of AnalyzeLogs the sum of the counts
\* of all routes is at most the number of Completed entries with a non-empty
\* session token, which is at most TotalLogs.
C3_CountConservation ==
    pc = "done" =>
        /\ SumOfCounts(result.PathMetrics) <= Cardinality(CompletedWithToken(entries))
        /\ Cardinality(CompletedWithToken(entries)) <= result.TotalLogs

\* C3 witness: a result with a counted pair, a Completed entry that was not
\* counted, and an entry that is no Completed entry with a token
C3_Witness ==
    /\ pc = "done"
    /\ SumOfCounts(result.PathMetrics) >= 1
    /\ SumOfCounts(result.PathMetrics) < Cardinality(CompletedWithToken(entries))
    /\ Cardinality(CompletedWithToken(entries)) < result.TotalLogs

\* the exclusion predicate on the literal path: some rule matches it
ExcludedLiteral(path) ==
    \E i \in DOMAIN pathExcluder : RuleMatches(pathExcluder[i], path)

\* the pairs AggregateMetrics has handled so far
Handled == 1..(idx - 1)

\* the handled pairs that are not excluded and whose path normalizes to route
Samples(route) ==
    {k \in Handled : /\ ~ExcludedLiteral(pairs[k].Started.Path)
                     /\ NormalizePath(pairs[k].Started.Path) = route}

DurationOf(k) == pairs[k].Completed.Duration

\* C4: incremental statistics.  For every route of the metrics map, with
\* d1..dn the durations of the non-excluded pairs folded so far that normalize
\* to the route: Count = n, MinTime = min, MaxTime = max, AverageTime = sum / n.
C4_IncrementalStatistics ==
    pc \in {"aggregate", "done"} =>
        \A route \in DOMAIN pathMetrics :
            LET ks == Samples(route)
                n  == Cardinality(ks)
                ds == {DurationOf(k) : k \in ks}
                m  == pathMetrics[route]
            IN /\ n >= 1
               /\ m.Count = n
               /\ m.MinTime = MinOf(ds)
               /\ m.MaxTime = MaxOf(ds)
               /\ m.AverageTime[1] * n =
                     SumOver(ks, [k \in ks |-> DurationOf(k)]) * m.AverageTime[2]

\* C4 witness: a route that folded three samples, the smallest neither first
\* nor last and the mean no integer
C4_Witness ==
    /\ pc = "done"
    /\ \E route \in DOMAIN result :
          /\ result[route].Count = 3
          /\ result[route].AverageTime[2] # 1
          /\ \E k \in Samples(route) :
                /\ DurationOf(k) = result[route].MinTime
                /\ \E i, j \in Samples(route) :
                      i < k /\ k < j /\ DurationOf(i) # DurationOf(j)

\* C5: exclusion.  The routes of the metrics map are exactly the normalized
\* paths of the handled pairs whose literal Started path (query string
\* included) matches no exclusion rule, and a route's count is the number of
\* those pairs: an excluded pair neither creates nor updates an entry, and the
\* other pairs are aggregated.
C5_Exclusion ==
    pc \in {"aggregate", "done"} =>
        /\ DOMAIN pathMetrics =
              {NormalizePath(pairs[k].Started.Path) :
                  k \in {h \in Handled : ~ExcludedLiteral(pairs[h].Started.Path)}}
        /\ \A route \in DOMAIN pathMetrics :
              pathMetrics[route].Count = Cardinality(Samples(route))

\* C5 witness: one run with an aggregated pair whose route template matches a
\* rule while its literal path does not, and an excluded pair whose literal
\* path matches a rule while its route template does not
C5_Witness ==
    /\ pc = "done"
    /\ \E i, j \in DOMAIN pairs :
          /\ ~ExcludedLiteral(pairs[i].Started.Path)
          /\ ExcludedLiteral(NormalizePath(pairs[i].Started.Path))
          /\ NormalizePath(pairs[i].Started.Path) \in DOMAIN result
          /\ ExcludedLiteral(pairs[j].Started.Path)
          /\ ~ExcludedLiteral(NormalizePath(pairs[j].Started.Path))
          /\ NormalizePath(pairs[j].Started.Path) \notin DOMAIN result

-----------------------------------------------------------------------------
(* Analyzer.AnalyzeLogEvents on a slice of log events                      *)

InitEvents ==
    /\ finished = <<>>
    /\ NormalizerUnused /\ OutputUnused /\ ConfigUnused /\ CloudWatchUnused
    /\ pc = "parse"
    /\ pathExcluder \in ExcluderPool
    /\ logEvents \in SeqsUpTo(MessagePool, MaxEvents)
    /\ logEntries = <<>>
    /\ idx = 1
    /\ entries = <<>>
    /\ startedLogs = EmptyMap
    /\ pairs = <<>>
    /\ pathMetrics = EmptyMap
    /\ result = Nil
    /\ logLine = ""
    /\ parsed = Nil

NextEvents ==
    \/ ParseStep
    \/ AnalyzeLogEventsReturn

SpecEvents == InitEvents /\ [][NextEvents]_vars

-----------------------------------------------------------------------------
(* Parser.ParseLogEntry and Parser.extractSessionID on one line            *)

ParseLogEntryCall ==
    /\ pc = "call"
    /\ pc' = "parsed"
    /\ parsed' = ParseLogEntry(logLine)
    /\ UNCHANGED <<pathExcluder, logEvents, logEntries, entries, idx, startedLogs,
                   pairs, pathMetrics, result, logLine>>
    /\ UNCHANGED otherVars

ExtractSessionIDCall ==
    /\ pc = "call"
    /\ pc' = "extracted"
    /\ parsed' = extractSessionID(logLine)
    /\ UNCHANGED <<pathExcluder, logEvents, logEntries, entries, idx, startedLogs,
                   pairs, pathMetrics, result, logLine>>
    /\ UNCHANGED otherVars

InitParser ==
    /\ finished = <<>>
    /\ NormalizerUnused /\ OutputUnused /\ ConfigUnused /\ CloudWatchUnused
    /\ pc = "call"
    /\ logLine \in LinePool
    /\ parsed = Nil
    /\ pathExcluder = NewDefaultPathExcluder
    /\ logEvents = <<>>
    /\ logEntries = <<>>
    /\ entries = <<>>
    /\ idx = 1
    /\ startedLogs = EmptyMap
    /\ pairs = <<>>
    /\ pathMetrics = EmptyMap
    /\ result = Nil

NextParser ==
    \/ ParseLogEntryCall
    \/ ExtractSessionIDCall

SpecParser == InitParser /\ [][NextParser]_vars

-----------------------------------------------------------------------------
(* Properties of the analyzer                                              *)

\* the messages of the events that ParseLogEntry parses, in their order
Parseable(messages) ==
    LET parses(m) == ParseLogEntry(m).err = Nil IN SelectSeq(messages, parses)

\* C2: end-to-end pairing.  For a Started line and a Completed line with the
\* same session token and a path that is not excluded, the result of
\* AnalyzeLogEvents holds exactly one route, the normalized path, with count 1
\* and MinTime = MaxTime = the duration of the Completed line.
C2_EndToEndPairing ==
    pc = "done" =>
        \A t \in {"abc123"} :
            logEvents = <<WithToken(StartedLine("GET", "/users/123", "127.0.0.1",
                                                "2023-01-01 12:00:00 +0900"), t),
                          WithToken(CompletedLine("200", "OK", "150"), t)>>
            => /\ DOMAIN result.PathMetrics = {NormalizePath("/users/123")}
               /\ \A route \in DOMAIN result.PathMetrics :
                     /\ result.PathMetrics[route].Count = 1
                     /\ result.PathMetrics[route].MinTime = 150
                     /\ result.PathMetrics[route].MaxTime = 150

\* C6 as stated: TotalLogs of the result of AnalyzeLogEvents is the number of
\* log events handed in, parsed or not.
C6_TotalLogsCountsEvents ==
    pc = "done" => result.TotalLogs = Len(logEvents)

\* C6 as amended: TotalLogs of the result of AnalyzeLogEvents is the number of
\* log events whose message ParseLogEntry parses; an event that fails to parse
\* does not count.
C6_TotalLogsCountsParsed ==
    pc = "done" =>
        result.TotalLogs =
            Cardinality({i \in DOMAIN logEvents : ParseLogEntry(logEvents[i]).err = Nil})

\* C6 witness: a result for events of which one parsed and one did not
C6_Witness ==
    /\ pc = "done"
    /\ \E i, j \in DOMAIN logEvents :
          /\ ParseLogEntry(logEvents[i]).err = Nil
          /\ ParseLogEntry(logEvents[j]).err # Nil
    /\ result.TotalLogs >= 1

\* C7: malformed input is not fatal.  AnalyzeLogEvents returns a result for
\* every sequence of events, and the result is the one of the same sequence
\* with the events that do not parse removed.
C7_MalformedInputSkipped ==
    pc = "done" =>
        /\ result # Nil
        /\ result = AnalyzeLogEvents(Parseable(logEvents), pathExcluder)

\* C7 witness: a result for events of which the first did not parse and later
\* ones did, a Started line and a Completed line among them
C7_Witness ==
    /\ pc = "done"
    /\ result # Nil
    /\ Len(logEvents) = 3
    /\ ParseLogEntry(logEvents[1]).err # Nil
    /\ Len(entries) = 2
    /\ entries[1].Type = "Started"
    /\ entries[2].Type = "Completed"

-----------------------------------------------------------------------------
(* Properties of the parser                                                *)

BracketGroups(s) ==
    {g \in (1..Len(s)) \X (1..Len(s)) :
        /\ g[1] + 1 < g[2]
        /\ Char(s, g[1]) = "["
        /\ Char(s, g[2]) = "]"
        /\ \A k \in (g[1] + 1)..(g[2] - 1) : Char(s, k) \notin {"[", "]"}}

\* the content of the last bracket group of s, "" when s has none
LastBracketGroup(s) ==
    IF BracketGroups(s) = {} THEN ""
    ELSE LET g == CHOOSE x \in BracketGroups(s) :
                      \A y \in BracketGroups(s) : y[1] <= x[1]
         IN SubSeq(s, g[1] + 1, g[2] - 1)

\* C9: extractSessionID returns the content of the last bracket group of the
\* line, wherever it is in the line, and "" when the line has no bracket group.
C9_LastBracketGroup ==
    pc = "extracted" => parsed = LastBracketGroup(logLine)

\* C10: a line in the production format, the log level prefix followed by a
\* Started or Completed record, parses to a Started or Completed entry.
C10_ProductionFormatAccepted ==
    pc = "parsed" =>
        \A t \in SessionTokens :
            /\ \A line \in StartedLines :
                  logLine = ProductionPrefix(t) \o line
                  => parsed.err = Nil /\ parsed.entry.Type = "Started"
            /\ \A line \in CompletedLines :
                  logLine = ProductionPrefix(t) \o line
                  => parsed.err = Nil /\ parsed.entry.Type = "Completed"

\* the code, phrase and duration of Completed lines, phrases of several words
\* and letters among them
CompletedShapes ==
    { <<"200", "OK", "150">>,
      <<"404", "Not Found", "50">>,
      <<"500", "Internal Server Error", "1000">>,
      <<"422", "Unprocessable Entity", "12">> }

\* C11: a line  Completed <digits> <phrase> in <digits>ms, with or without
\* surrounding blanks and a trailing token, parses to a Completed entry with
\* that status code, that phrase as status text and that duration, whatever
\* the letters of the phrase; without sub-timings ViewDuration = DBDuration = 0.
C11_FreeTextStatusPhrase ==
    pc = "parsed" =>
        \A sh \in CompletedShapes : \A pre \in {"", "  "} :
            \A suf \in {""} \cup {WithToken("", t) : t \in SessionTokens} :
                logLine = pre \o CompletedLine(sh[1], sh[2], sh[3]) \o suf
                => /\ parsed.err = Nil
                   /\ parsed.entry.Type = "Completed"
                   /\ parsed.entry.StatusCode = DecimalValue(sh[1])
                   /\ parsed.entry.StatusText = sh[2]
                   /\ parsed.entry.Duration = DecimalValue(sh[3])
                   /\ parsed.entry.ViewDuration = RatOfInt(0)
                   /\ parsed.entry.DBDuration = RatOfInt(0)

\* C12: ParseLogEntry returns either an entry and no error or no entry and an
\* error; it returns an error for an empty or blank line and for a line that
\* is neither a Started nor a Completed line, and no line is both.
C12_EntryOrError ==
    pc = "parsed" =>
        LET line == TrimSpace(logLine)
        IN /\ (parsed.entry = Nil) # (parsed.err = Nil)
           /\ line = "" => parsed.entry = Nil /\ parsed.err # Nil
           /\ ~isStartedLog(line) /\ ~isCompletedLog(line)
              => parsed.entry = Nil /\ parsed.err # Nil
           /\ ~(isStartedLog(line) /\ isCompletedLog(line))

\* C12 witness: ParseLogEntry has returned an error and no entry for a line
\* of blanks
C12_Witness ==
    /\ pc = "parsed"
    /\ logLine # ""
    /\ TrimSpace(logLine) = ""
    /\ parsed.entry = Nil
    /\ parsed.err # Nil

\* timestamps that are not in the layout 2006-01-02 15:04:05 -0700
BadTimestamps ==
    {"2023-02-30 09:15:30 +0900", "2023-01-01T12:00:00Z", "2023-01-01 12:00:00"}

\* the time.Time of a timestamp in the layout
Time(year, month, day, hour, minute, second, zone) ==
    [year |-> year, month |-> month, day |-> day, hour |-> hour,
     minute |-> minute, second |-> second, fraction |-> "", zone |-> zone]

-----------------------------------------------------------------------------
(* Normalizer.NormalizePath on one path                                    *)

\* the state of the parser, the aggregator and the analyzer when no call of
\* theirs is running
AnalysisUnused ==
    /\ pathExcluder = NewDefaultPathExcluder
    /\ logEvents = <<>>
    /\ logEntries = <<>>
    /\ entries = <<>>
    /\ idx = 1
    /\ startedLogs = EmptyMap
    /\ pairs = <<>>
    /\ pathMetrics = EmptyMap
    /\ result = Nil
    /\ logLine = ""
    /\ parsed = Nil

analysisVars == <<pathExcluder, logEvents, logEntries, entries, idx, startedLogs,
                  pairs, pathMetrics, result, logLine, parsed>>

\* path segments: identifiers of every kind, dates that exist and dates that
\* do not, words, the placeholders, the empty segment
SegmentPool ==
    { "123", "0", "123456", "550e8400-e29b-41d4-a716-446655440000",
      "abc123def", "deadbeef", "abcde", "users", "new",
      "2023-01-15", "2024-12-31", "2024-02-29", "2000-02-29", "2023-02-29",
      "1900-02-29", "2023-02-30", "2023-04-31", "2023-13-01", "2023-00-10",
      "2023-01-00", "2023/01/15", "2023-01",
      "ORD-123", "ORD-AB12-34", "ab-12", ":id", ":date", "" }

PathPrefixes == {"", "/", "/users/", "/api/v1//"}

PathSuffixes == {"", "/", "/edit", "/456"}

QueryStrings == {"", "?", "?page=1", "?id=123/456?x=2023-01-15"}

\* the paths handed to NormalizePath are drawn from these
PathPool ==
    {a \o g \o b \o q : a \in PathPrefixes, g \in SegmentPool,
                        b \in PathSuffixes, q \in QueryStrings}
        \cup { "/products/789?",
               "/api/users/456?page=2&sort=name&filter=active",
               "/organizations/123/teams/456?include=members&limit=50" }

NormalizePathCall ==
    /\ pc = "call"
    /\ pc' = "normalized"
    /\ outputPath' = NormalizePath(inputPath)
    /\ UNCHANGED <<inputPath, analysisVars, finished, outputVars, configVars,
                   cloudwatchVars>>

InitNormalizer ==
    /\ pc = "call"
    /\ inputPath \in PathPool
    /\ outputPath = ""
    /\ finished = <<>>
    /\ AnalysisUnused /\ OutputUnused /\ ConfigUnused /\ CloudWatchUnused

NextNormalizer == NormalizePathCall

SpecNormalizer == InitNormalizer /\ [][NextNormalizer]_vars

-----------------------------------------------------------------------------
(* Properties of the normalizer                                            *)

\* C14: NormalizePath is idempotent: a normalized path is its own
\* normalization.
C14_Idempotent ==
    pc = "normalized" => NormalizePath(outputPath) = outputPath

\* C14 witness: NormalizePath has returned a path with both placeholders in
\* place of a number and a date
C14_Witness ==
    /\ pc = "normalized"
    /\ inputPath = "/users/2023-01-15/456"
    /\ outputPath = "/users/:date/:id"

\* the text of p before its first ?
BeforeQuery(p) ==
    IF Index(p, "?") = 0 THEN p ELSE SubSeq(p, 1, Index(p, "?") - 1)

\* C15: NormalizePath strips the query: the result is the normalization of
\* the text before the first ? and holds no ?.
C15_QueryStripped ==
    pc = "normalized" =>
        /\ Index(outputPath, "?") = 0
        /\ outputPath = NormalizePath(BeforeQuery(inputPath))
        /\ inputPath = "/users/123?page=1" => outputPath = "/users/:id"
        /\ inputPath = "/products/789?" => outputPath = "/products/:id"
        /\ inputPath = "/users/123?id=123/456?x=2023-01-15" => outputPath = "/users/:id"

\* C15 witness: NormalizePath has returned for a path with a query string
\* that itself holds segments and a second ?
C15_Witness ==
    /\ pc = "normalized"
    /\ inputPath = "/users/123?id=123/456?x=2023-01-15"
    /\ outputPath = "/users/:id"

\* the calendar: the date exists
RealCalendarDate(year, month, day) ==
    LET leap == (year % 4 = 0 /\ year % 100 # 0) \/ year % 400 = 0
    IN \/ month \in {1, 3, 5, 7, 8, 10, 12} /\ day \in 1..31
       \/ month \in {4, 6, 9, 11} /\ day \in 1..30
       \/ month = 2 /\ day \in 1..(IF leap THEN 29 ELSE 28)

\* the segments of the pool of the shape YYYY-MM-DD
DateShaped ==
    {g \in SegmentPool :
        /\ Len(g) = 10
        /\ \A i \in 1..10 :
              IF i \in {5, 8} THEN Char(g, i) = "-" ELSE Char(g, i) \in Digits}

\* C16: a segment of the shape YYYY-MM-DD becomes :date when it is a date of
\* the calendar, and is left as it is when it is not.
C16_RealDatesOnly ==
    pc = "normalized" =>
        \A g \in DateShaped :
            inputPath = "/users/" \o g \o "/edit"
            => outputPath =
                  IF RealCalendarDate(DecimalValue(SubSeq(g, 1, 4)),
                                      DecimalValue(SubSeq(g, 6, 7)),
                                      DecimalValue(SubSeq(g, 9, 10)))
                  THEN "/users/:date/edit"
                  ELSE inputPath

\* C16 witness: NormalizePath has returned the path with the 30th of February
\* unchanged
C16_Witness ==
    /\ pc = "normalized"
    /\ inputPath = "/users/2023-02-30/edit"
    /\ outputPath = inputPath

\* the placeholder of the earliest matcher, in the order all-digit, UUID, hex,
\* calendar date, reference code, that the segment satisfies; the segment
\* itself when it satisfies none
EarliestPlaceholder(segment) ==
    IF isNumericID(segment) THEN ":id"
    ELSE IF isUUID(segment) THEN ":id"
    ELSE IF isHexID(segment) THEN ":id"
    ELSE IF isDateFormat(segment) THEN ":date"
    ELSE IF isOrderID(segment) THEN ":id"
    ELSE segment

\* C24: matcher precedence.  Every segment of the path part comes out as the
\* placeholder of the earliest matcher it satisfies in the order all-digit,
\* UUID, hex, calendar date, reference code: :date only when none of the
\* three matchers before the date matcher fires.
C24_MatcherPrecedence ==
    pc = "normalized" =>
        LET segments == Split(BeforeQuery(inputPath), "/")
            out      == Split(outputPath, "/")
        IN /\ Len(out) = Len(segments)
           /\ \A i \in DOMAIN segments : out[i] = EarliestPlaceholder(segments[i])

\* C24 witness: NormalizePath has returned for a path with a date segment,
\* which none of the matchers before the date matcher satisfies, and an
\* all-digit segment
C24_Witness ==
    /\ pc = "normalized"
    /\ inputPath = "/api/v1//2024-02-29/456?page=1"
    /\ ~isNumericID("2024-02-29") /\ ~isUUID("2024-02-29") /\ ~isHexID("2024-02-29")
    /\ outputPath = "/api/v1//:date/:id"

\* the number of occurrences of the character ch in s
CountOf(s, ch) == Cardinality({i \in 1..Len(s) : Char(s, i) = ch})

\* C25: NormalizePath preserves the structure of the path: as many segments
\* and slashes as the path part of the input, empty segments stay empty, a
\* segment no matcher satisfies is left as it is, and a segment some matcher
\* satisfies becomes :id or :date.
C25_StructurePreserved ==
    pc = "normalized" =>
        LET segments == Split(BeforeQuery(inputPath), "/")
            out      == Split(outputPath, "/")
        IN /\ Len(out) = Len(segments)
           /\ CountOf(outputPath, "/") = CountOf(BeforeQuery(inputPath), "/")
           /\ \A i \in DOMAIN segments :
                 /\ segments[i] = "" => out[i] = ""
                 /\ ~shouldNormalize(segments[i]) => out[i] = segments[i]
                 /\ shouldNormalize(segments[i]) => out[i] \in {":id", ":date"}

\* C25 witness: NormalizePath has returned for a path with a leading, a
\* double and a trailing slash, two words and a number
C25_Witness ==
    /\ pc = "normalized"
    /\ inputPath = "/api/v1//123/"
    /\ outputPath = "/api/v1//:id/"

-----------------------------------------------------------------------------
(* Analyzer.OutputJSON on an analysis result                               *)

\* strconv.Itoa for a number >= 0
RECURSIVE Itoa(_)
Itoa(n) ==
    LET digit == SubSeq("0123456789", (n % 10) + 1, (n % 10) + 1)
    IN IF n < 10 THEN digit ELSE Itoa(n \div 10) \o digit

\* fmt.Sprintf("%.0f", x) for x >= 0: x rounded to the nearest integer, a half
\* to the even one
FormatFloat0(x) ==
    LET q == x[1] \div x[2]
        r == x[1] % x[2]
    IN Itoa(IF 2 * r < x[2] THEN q
            ELSE IF 2 * r > x[2] THEN q + 1
            ELSE IF q % 2 = 0 THEN q ELSE q + 1)

\* the models.SimplifiedPathMetrics OutputJSON builds from the metrics of a path
SimplifiedPathMetrics(metrics) ==
    [Path |-> metrics.Path, Count |-> metrics.Count, MaxTimeMs |-> metrics.MaxTime,
     MinTimeMs |-> metrics.MinTime, AvgTimeMs |-> FormatFloat0(metrics.AverageTime)]

\* the orderings of the sequence records
Orderings(records) ==
    LET n == Len(records)
    IN {[i \in 1..n |-> records[f[i]]] :
           f \in {g \in [1..n -> 1..n] : \A i, j \in 1..n : g[i] = g[j] => i = j}}

\* sort.Slice with the counts taken in ascending order
SortByCountAscending(records) ==
    {sorted \in Orderings(records) :
        \A i \in 1..(Len(sorted) - 1) : sorted[i].Count <= sorted[i + 1].Count}

\* sort.Slice(simplified, less) with less(i, j) = Count[i] > Count[j]: the
\* orders the sort may leave the records in.  The sort is not stable and the
\* records arrive in the order of a map iteration, so records of equal Count
\* come out in any order.
SortByCount(records) ==
    {sorted \in Orderings(records) :
        \A i \in 1..(Len(sorted) - 1) : ~(sorted[i + 1].Count > sorted[i].Count)}

\* one record as json.Encoder writes it with SetIndent("", "    "); the paths
\* modelled hold no character that JSON escapes
EncodeRecord(record) ==
    "    {\n"
    \o "        \"path\": \"" \o record.Path \o "\",\n"
    \o "        \"count\": " \o Itoa(record.Count) \o ",\n"
    \o "        \"max_time_ms\": " \o Itoa(record.MaxTimeMs) \o ",\n"
    \o "        \"min_time_ms\": " \o Itoa(record.MinTimeMs) \o ",\n"
    \o "        \"avg_time_ms\": \"" \o record.AvgTimeMs \o "\"\n"
    \o "    }"

\* encoder.Encode(simplified): the JSON array and a line break
Encode(records) ==
    IF Len(records) = 0 THEN "[]\n"
    ELSE "[\n" \o Join([i \in 1..Len(records) |-> EncodeRecord(records[i])], ",\n")
         \o "\n]\n"

\* OutputJSON: the range loop over result.PathMetrics appends the record of a
\* path the iteration has not visited yet (a map is iterated in any order)
OutputJSONAppend ==
    /\ pc = "output"
    /\ \E route \in DOMAIN result.PathMetrics :
          /\ \A i \in DOMAIN simplified : simplified[i].Path # result.PathMetrics[route].Path
          /\ simplified' = Append(simplified,
                                  SimplifiedPathMetrics(result.PathMetrics[route]))
    /\ UNCHANGED <<pc, written, analysisVars, finished, normalizerVars, configVars,
                   cloudwatchVars>>

\* OutputJSON: after the loop the records are sorted and encoded to the writer
OutputJSONEncode ==
    /\ pc = "output"
    /\ Len(simplified) = Cardinality(DOMAIN result.PathMetrics)
    /\ pc' = "written"
    /\ \E sorted \in SortByCount(simplified) :
          /\ simplified' = sorted
          /\ written' = Encode(sorted)
    /\ UNCHANGED <<analysisVars, finished, normalizerVars, configVars, cloudwatchVars>>

\* the analysis results handed to OutputJSON: those AnalyzeLogs returns
ResultPool ==
    {AnalysisResult(2 * Len(ps), AggregateMetrics(PairsWithAddrs(ps), Len(ps), rules)) :
        ps \in SeqsUpTo(PairPool, MaxPairs), rules \in ExcluderPool}

InitOutput ==
    /\ pc = "output"
    /\ result \in ResultPool
    /\ simplified = <<>>
    /\ written = ""
    /\ pathExcluder = NewDefaultPathExcluder
    /\ logEvents = <<>>
    /\ logEntries = <<>>
    /\ entries = <<>>
    /\ idx = 1
    /\ startedLogs = EmptyMap
    /\ pairs = <<>>
    /\ pathMetrics = EmptyMap
    /\ logLine = ""
    /\ parsed = Nil
    /\ finished = <<>>
    /\ NormalizerUnused /\ ConfigUnused /\ CloudWatchUnused

NextOutput ==
    \/ OutputJSONAppend
    \/ OutputJSONEncode

SpecOutput == InitOutput /\ [][NextOutput]_vars

-----------------------------------------------------------------------------
(* Properties of OutputJSON                                                *)

\* the number of places of text where lit stands
Occurrences(text, lit) == Cardinality({i \in 1..Len(text) : LitAt(text, i, lit)})

\* C17: OutputJSON emits one record per route of the result, with the route's
\* path, count, maximum and minimum, the records in descending order of count;
\* a result without routes is emitted as the empty array.
C17_OneRecordPerRouteByCount ==
    pc = "written" =>
        /\ Len(simplified) = Cardinality(DOMAIN result.PathMetrics)
        /\ \A route \in DOMAIN result.PathMetrics :
              /\ Cardinality({i \in DOMAIN simplified : simplified[i].Path = route}) = 1
              /\ \A i \in DOMAIN simplified :
                    simplified[i].Path = route
                    => /\ simplified[i].Count = result.PathMetrics[route].Count
                       /\ simplified[i].MaxTimeMs = result.PathMetrics[route].MaxTime
                       /\ simplified[i].MinTimeMs = result.PathMetrics[route].MinTime
                       /\ Occurrences(written,
                             "\"path\": \"" \o route \o "\",\n        \"count\": "
                             \o Itoa(simplified[i].Count) \o ",\n        \"max_time_ms\": "
                             \o Itoa(simplified[i].MaxTimeMs) \o ",\n        \"min_time_ms\": "
                             \o Itoa(simplified[i].MinTimeMs) \o ",") = 1
        /\ Occurrences(written, "\"path\": ") = Cardinality(DOMAIN result.PathMetrics)
        /\ \A i \in 1..(Len(simplified) - 1) :
              /\ simplified[i].Count >= simplified[i + 1].Count
              /\ Index(written, "\"path\": \"" \o simplified[i].Path \o "\"")
                    < Index(written, "\"path\": \"" \o simplified[i + 1].Path \o "\"")
        /\ DOMAIN result.PathMetrics = {} => written = "[]\n"

\* C17 witness: OutputJSON has written two records, the route with two
\* requests before the route with one
C17_Witness ==
    /\ pc = "written"
    /\ Len(simplified) = 2
    /\ simplified[1].Count = 2
    /\ simplified[2].Count = 1
    /\ Index(written, "\"count\": 2") # 0

-----------------------------------------------------------------------------
(* Successive invocations of AnalyzeLogs on one Aggregator                 *)

MaxCalls == 2

MaxCallEntries == 2

\* the entries handed to the successive invocations are drawn from these
CallEntryPool ==
    { Started("GET", "/users/123", "s1"),
      Started("POST", "/items/new", "s1"),
      Completed(200, "OK", 150, "s1") }

\* the entries of invocation k are objects of their own
CallEntries(es, k) ==
    [i \in 1..Len(es) |-> [es[i] EXCEPT !.addr = (k - 1) * MaxCallEntries + i]]

\* what is known of an invocation that has returned
Invocation(es, pending, res) == [entries |-> es, startedLogs |-> pending, result |-> res]

\* AnalyzeLogsCall with the map of pending Started logs kept from the
\* invocation before
AnalyzeLogsCallKeepsPending ==
    /\ pc = "done"
    /\ Len(finished) + 1 < MaxCalls
    /\ finished' = Append(finished, Invocation(entries, startedLogs, result))
    /\ \E es \in SeqsUpTo(CallEntryPool, MaxCallEntries) :
          entries' = CallEntries(es, Len(finished) + 2)
    /\ pc' = "match"
    /\ idx' = 1
    /\ pairs' = <<>>
    /\ UNCHANGED <<pathExcluder, logEvents, logEntries, startedLogs, pathMetrics,
                   result, logLine, parsed, normalizerVars, outputVars, configVars,
                   cloudwatchVars>>

\* the next invocation of AnalyzeLogs on the same Aggregator: MatchRequestPairs
\* makes pairs and startedLogs anew (AggregateMetrics makes pathMetrics anew
\* when MatchRequestPairs has returned)
AnalyzeLogsCall ==
    /\ pc = "done"
    /\ Len(finished) + 1 < MaxCalls
    /\ finished' = Append(finished, Invocation(entries, startedLogs, result))
    /\ \E es \in SeqsUpTo(CallEntryPool, MaxCallEntries) :
          entries' = CallEntries(es, Len(finished) + 2)
    /\ pc' = "match"
    /\ idx' = 1
    /\ pairs' = <<>>
    /\ startedLogs' = EmptyMap
    /\ UNCHANGED <<pathExcluder, logEvents, logEntries, pathMetrics, result,
                   logLine, parsed, normalizerVars, outputVars, configVars,
                   cloudwatchVars>>

InitCalls ==
    /\ pc = "match"
    /\ pathExcluder \in ExcluderPool
    /\ \E es \in SeqsUpTo(CallEntryPool, MaxCallEntries) : entries = CallEntries(es, 1)
    /\ idx = 1
    /\ startedLogs = EmptyMap
    /\ pairs = <<>>
    /\ pathMetrics = EmptyMap
    /\ result = Nil
    /\ logEvents = <<>>
    /\ logEntries = <<>>
    /\ logLine = ""
    /\ parsed = Nil
    /\ finished = <<>>
    /\ NormalizerUnused /\ OutputUnused /\ ConfigUnused /\ CloudWatchUnused

NextCalls ==
    \/ MatchStep
    \/ MatchReturn
    \/ AggregateStep
    \/ AnalyzeLogsReturn
    \/ AnalyzeLogsCall

SpecCalls == InitCalls /\ [][NextCalls]_vars

\* C18: no state is carried from one invocation to the next.  The result of
\* an invocation is that of AnalyzeLogs on its own entries and the exclusion
\* rules, every pair is made of entries of this invocation (a Started log left
\* pending by an earlier invocation is not paired), and the results of the
\* earlier invocations are those of their own entries.
C18_NoCrossCallState ==
    pc = "done" =>
        /\ result = AnalyzeLogs(entries, pathExcluder)
        /\ \A i \in DOMAIN pairs :
              /\ \E j \in DOMAIN entries : entries[j].addr = pairs[i].Started.addr
              /\ \E j \in DOMAIN entries : entries[j].addr = pairs[i].Completed.addr
        /\ SumOfCounts(result.PathMetrics) <= Len(entries)
        /\ \A k \in DOMAIN finished :
              finished[k].result = AnalyzeLogs(finished[k].entries, pathExcluder)

\* C18 witness: an invocation has returned without a pair for its Completed
\* entry, whose session token had a Started log pending when the invocation
\* before returned
C18_Witness ==
    /\ pc = "done"
    /\ Len(finished) = 1
    /\ "s1" \in DOMAIN finished[1].startedLogs
    /\ \E j \in DOMAIN entries :
          entries[j].Type = "Completed" /\ entries[j].SessionID = "s1"
    /\ pairs = <<>>
    /\ result.PathMetrics = EmptyMap

-----------------------------------------------------------------------------
(* The exclusion rules of the analyze command                              *)

\* filepath.Join for directory names without . and .. elements: the elements
\* that are not empty joined by /, repeated / made one, a / at the end removed
RECURSIVE CleanSlashes(_)
CleanSlashes(p) ==
    IF Len(p) <= 1 THEN p
    ELSE IF Char(p, 1) = "/" /\ Char(p, 2) = "/" THEN CleanSlashes(Tail(p))
    ELSE IF Len(p) = 2 /\ Char(p, 2) = "/" THEN Char(p, 1)
    ELSE Char(p, 1) \o CleanSlashes(Tail(p))

FilepathJoin(elems) ==
    LET notEmpty(e) == e # "" IN CleanSlashes(Join(SelectSeq(elems, notEmpty), "/"))

\* what a constructor returns: (excluder, nil) or (nil, error)
Constructed(excluder, err) == [excluder |-> excluder, err |-> err]

\* NewPathExcluder: the file system maps the path of a file to the rules its
\* YAML text holds
NewPathExcluder(fs, file) ==
    IF file \notin DOMAIN fs
    THEN Constructed(Nil, Error("failed to read config file"))
    ELSE IF \E i \in DOMAIN fs[file] :
                 /\ fs[file][i].Exact = ""
                 /\ fs[file][i].Prefix = ""
                 /\ fs[file][i].Pattern = ""
         THEN Constructed(Nil, Error("exclusion rule must specify at least one matching criteria"))
         ELSE Constructed(fs[file], Nil)

\* FindConfigPath: the search paths in order of preference
searchPaths(env) ==
    (IF env.XDG_CONFIG_HOME # ""
     THEN <<FilepathJoin(<<env.XDG_CONFIG_HOME, "cw-railspathmetrics",
                           "excluded_paths.yml">>)>>
     ELSE <<>>)
    \o (IF env.HOME # ""
        THEN <<FilepathJoin(<<env.HOME, ".config", "cw-railspathmetrics",
                              "excluded_paths.yml">>),
               FilepathJoin(<<env.HOME, ".cw-railspathmetrics", "excluded_paths.yml">>)>>
        ELSE <<>>)

\* FindConfigPath: the first search path where a file is, "" and false if none
FindConfigPath(env, fs) ==
    LET found == {i \in DOMAIN searchPaths(env) : searchPaths(env)[i] \in DOMAIN fs}
    IN IF found = {} THEN [path |-> "", found |-> FALSE]
       ELSE [path |-> searchPaths(env)[CHOOSE i \in found : \A j \in found : i <= j],
             found |-> TRUE]

\* NewPathExcluderWithSearch
NewPathExcluderWithSearch(env, fs) ==
    IF FindConfigPath(env, fs).found
    THEN NewPathExcluder(fs, FindConfigPath(env, fs).path)
    ELSE Constructed(NewDefaultPathExcluder, Nil)

\* NewAnalyzerWithConfig: the pathExcluder of the aggregator of the analyzer
NewAnalyzerWithConfig(file, env, fs) ==
    IF file # "" THEN NewPathExcluder(fs, file)
    ELSE NewPathExcluderWithSearch(env, fs)

\* NewAnalyzer: the pathExcluder of the aggregator of the analyzer
NewAnalyzer == NewDefaultPathExcluder

\* runAnalyze, "Initialize analyzer": the analyzer the command analyzes with
RunAnalyze ==
    /\ pc = "start"
    /\ LET made == IF configPath # ""
                   THEN NewAnalyzerWithConfig(configPath, environ, files)
                   ELSE Constructed(NewAnalyzer, Nil)
       IN IF made.err # Nil
          THEN /\ pc' = "failed"
               /\ result' = made.err
               /\ UNCHANGED pathExcluder
          ELSE /\ pc' = "analyzing"
               /\ pathExcluder' = made.excluder
               /\ UNCHANGED result
    /\ UNCHANGED <<logEvents, logEntries, entries, idx, startedLogs, pairs,
                   pathMetrics, logLine, parsed, finished, normalizerVars,
                   outputVars, configVars, cloudwatchVars>>

\* a call of NewAnalyzerWithConfig by a user of the package
NewAnalyzerWithConfigCall ==
    /\ pc = "start"
    /\ LET made == NewAnalyzerWithConfig(configPath, environ, files)
       IN IF made.err # Nil
          THEN /\ pc' = "failed"
               /\ result' = made.err
               /\ UNCHANGED pathExcluder
          ELSE /\ pc' = "constructed"
               /\ pathExcluder' = made.excluder
               /\ UNCHANGED result
    /\ UNCHANGED <<logEvents, logEntries, entries, idx, startedLogs, pairs,
                   pathMetrics, logLine, parsed, finished, normalizerVars,
                   outputVars, configVars, cloudwatchVars>>

\* the values of the --config flag
ConfigFlags == {"", "/etc/cwrstats/excluded_paths.yml", "/tmp/missing.yml"}

\* the values of XDG_CONFIG_HOME and HOME ("" when unset)
Environments ==
    [XDG_CONFIG_HOME : {"", "/xdg/", "/home/u/.config"}, HOME : {"", "/home/u"}]

\* the places where a configuration file may be
ConfigLocations ==
    { "/etc/cwrstats/excluded_paths.yml",
      "/xdg/cw-railspathmetrics/excluded_paths.yml",
      "/home/u/.config/cw-railspathmetrics/excluded_paths.yml",
      "/home/u/.cw-railspathmetrics/excluded_paths.yml" }

\* the rules a configuration file may hold; the last has a rule without criteria
ConfigContents ==
    { <<ExclusionRule("/health", "", "")>>,
      <<ExclusionRule("", "/assets", ""), ExclusionRule("", "", "^/api/internal/")>>,
      <<ExclusionRule("", "", "")>> }

InitConfig ==
    /\ pc = "start"
    /\ configPath \in ConfigFlags
    /\ environ \in Environments
    /\ files \in UNION {[locations -> ConfigContents] : locations \in SUBSET ConfigLocations}
    /\ pathExcluder = Nil
    /\ result = Nil
    /\ logEvents = <<>>
    /\ logEntries = <<>>
    /\ entries = <<>>
    /\ idx = 1
    /\ startedLogs = EmptyMap
    /\ pairs = <<>>
    /\ pathMetrics = EmptyMap
    /\ logLine = ""
    /\ parsed = Nil
    /\ finished = <<>>
    /\ NormalizerUnused /\ OutputUnused /\ CloudWatchUnused

NextConfig ==
    \/ RunAnalyze
    \/ NewAnalyzerWithConfigCall

SpecConfig == InitConfig /\ [][NextConfig]_vars

\* the places the documentation lists, in its order of preference: the path
\* of --config, then the three searched locations
DocumentedLocations ==
    (IF configPath # "" THEN <<configPath>> ELSE <<>>)
    \o (IF environ.XDG_CONFIG_HOME # ""
        THEN <<FilepathJoin(<<environ.XDG_CONFIG_HOME,
                              "cw-railspathmetrics/excluded_paths.yml">>)>>
        ELSE <<>>)
    \o (IF environ.HOME # ""
        THEN <<environ.HOME \o "/.config/cw-railspathmetrics/excluded_paths.yml",
               environ.HOME \o "/.cw-railspathmetrics/excluded_paths.yml">>
        ELSE <<>>)

\* C19: the analyze command applies the rules of the first source there is:
\* the file of --config, then the file in the first searched location, then
\* the built-in default.  In particular, without --config and with a file in
\* a searched location, the rules of that file are the ones applied.
C19_ConfigSearchOrder ==
    pc = "analyzing" =>
        LET there == {i \in DOMAIN DocumentedLocations :
                         DocumentedLocations[i] \in DOMAIN files}
            first == DocumentedLocations[CHOOSE i \in there : \A j \in there : i <= j]
        IN IF there = {} THEN pathExcluder = NewDefaultPathExcluder
           ELSE NewPathExcluder(files, first).err = Nil => pathExcluder = files[first]

-----------------------------------------------------------------------------
(* Client.FilterLogEventsWithPagination                                    *)

MaxPages == 3

\* a time.Time as seconds and nanoseconds since the epoch
UnixMilli(t) == t.sec * 1000 + t.nsec \div 1000000

\* the pointer to a string
StringPtr(str) == [value |-> str]

\* the input of a call without the NextToken of the page before
FilterLogEventsInputWithoutToken(args, token) ==
    [LogGroupName  |-> args.logGroupName,
     StartTime     |-> UnixMilli(args.startTime),
     EndTime       |-> UnixMilli(args.endTime),
     NextToken     |-> Nil,
     FilterPattern |-> "?Started ?Completed"]

\* the cloudwatchlogs.FilterLogEventsInput of one iteration of the loop
FilterLogEventsInput(args, token) ==
    [LogGroupName  |-> args.logGroupName,
     StartTime     |-> UnixMilli(args.startTime),
     EndTime       |-> UnixMilli(args.endTime),
     NextToken     |-> token,
     FilterPattern |-> "?Started ?Completed"]

\* what api.FilterLogEvents returns: (output, nil) or (nil, error)
FilterLogEventsOutput(events, token) ==
    [err |-> Nil, Events |-> events, NextToken |-> token]

FilterLogEventsError == [err |-> Error("api error"), Events |-> <<>>, NextToken |-> Nil]

\* what FilterLogEventsWithPagination returns
Fetched(events, err) == [events |-> events, err |-> err]

\* FilterLogEventsCall with the events of the earlier pages returned along
\* with the error
FilterLogEventsCallKeepsPartial ==
    /\ pc = "fetch"
    /\ Len(requests) < Len(api)
    /\ requests' = Append(requests, FilterLogEventsInput(fetchArgs, nextToken))
    /\ LET output == api[Len(requests) + 1]
       IN IF output.err # Nil
          THEN /\ pc' = "returned"
               /\ result' = Fetched(allEvents, output.err)
               /\ UNCHANGED <<allEvents, nextToken>>
          ELSE /\ allEvents' = allEvents \o output.Events
               /\ IF output.NextToken = Nil
                  THEN /\ pc' = "returned"
                       /\ result' = Fetched(allEvents', Nil)
                       /\ UNCHANGED nextToken
                  ELSE /\ nextToken' = output.NextToken
                       /\ UNCHANGED <<pc, result>>
    /\ UNCHANGED <<pathExcluder, logEvents, logEntries, entries, idx, startedLogs,
                   pairs, pathMetrics, logLine, parsed, finished, normalizerVars,
                   outputVars, configVars, fetchArgs, api>>

\* FilterLogEventsCall with the loop going on after an output without NextToken
FilterLogEventsCallIgnoresNilToken ==
    /\ pc = "fetch"
    /\ Len(requests) < Len(api)
    /\ requests' = Append(requests, FilterLogEventsInput(fetchArgs, nextToken))
    /\ LET output == api[Len(requests) + 1]
       IN IF output.err # Nil
          THEN /\ pc' = "returned"
               /\ result' = Fetched(Nil, output.err)
               /\ UNCHANGED <<allEvents, nextToken>>
          ELSE /\ allEvents' = allEvents \o output.Events
               /\ nextToken' = output.NextToken
               /\ UNCHANGED <<pc, result>>
    /\ UNCHANGED <<pathExcluder, logEvents, logEntries, entries, idx, startedLogs,
                   pairs, pathMetrics, logLine, parsed, finished, normalizerVars,
                   outputVars, configVars, fetchArgs, api>>

\* one iteration of the loop of FilterLogEventsWithPagination: the call of
\* api.FilterLogEvents, and the return when the call fails or the output holds
\* no NextToken
FilterLogEventsCall ==
    /\ pc = "fetch"
    /\ Len(requests) < Len(api)
    /\ requests' = Append(requests, FilterLogEventsInput(fetchArgs, nextToken))
    /\ LET output == api[Len(requests) + 1]
       IN IF output.err # Nil
          THEN /\ pc' = "returned"
               /\ result' = Fetched(Nil, output.err)
               /\ UNCHANGED <<allEvents, nextToken>>
          ELSE /\ allEvents' = allEvents \o output.Events
               /\ IF output.NextToken = Nil
                  THEN /\ pc' = "returned"
                       /\ result' = Fetched(allEvents', Nil)
                       /\ UNCHANGED nextToken
                  ELSE /\ nextToken' = output.NextToken
                       /\ UNCHANGED <<pc, result>>
    /\ UNCHANGED <<pathExcluder, logEvents, logEntries, entries, idx, startedLogs,
                   pairs, pathMetrics, logLine, parsed, finished, normalizerVars,
                   outputVars, configVars, fetchArgs, api>>

\* the events of one page
EventPages == {<<>>, <<"event1">>, <<"event2", "event3">>}

\* the NextToken of an output: none, or a pointer to a token
NextTokens == {Nil, StringPtr("token1"), StringPtr("token2")}

\* the outcomes of a call of api.FilterLogEvents
Outcomes ==
    {FilterLogEventsOutput(events, token) : events \in EventPages, token \in NextTokens}
        \cup {FilterLogEventsError}

\* the arguments of FilterLogEventsWithPagination
FetchArgs ==
    [logGroupName : {"test-log-group", "/aws/rails/production"},
     startTime    : {[sec |-> 1000, nsec |-> 0]},
     endTime      : {[sec |-> 4600, nsec |-> 999000000]}]

\* the service answers the calls with these outcomes in turn; the last of them
\* is an error or an output without NextToken
InitPagination ==
    /\ pc = "fetch"
    /\ fetchArgs \in FetchArgs
    /\ api \in {outcomes \in SeqsUpTo(Outcomes, MaxPages) :
                   /\ Len(outcomes) > 0
                   /\ outcomes[Len(outcomes)].NextToken = Nil}
    /\ requests = <<>>
    /\ nextToken = Nil
    /\ allEvents = <<>>
    /\ AnalysisUnused
    /\ finished = <<>>
    /\ NormalizerUnused /\ OutputUnused /\ ConfigUnused

NextPagination == FilterLogEventsCall

SpecPagination == InitPagination /\ [][NextPagination]_vars

\* the events of the first n outcomes, in their order
RECURSIVE EventsOfPages(_, _)
EventsOfPages(outcomes, n) ==
    IF n = 0 THEN <<>> ELSE EventsOfPages(outcomes, n - 1) \o outcomes[n].Events

\* C20: the first request carries no NextToken; every later request carries
\* the NextToken of the output before it, with the log group, the start, the
\* end and the filter pattern unchanged; fetching stops at the first output
\* without NextToken, and the events returned are those of all the pages in
\* the order of the pages.
C20_PagesConcatenated ==
    /\ \A i \in DOMAIN requests :
          /\ requests[i].NextToken = IF i = 1 THEN Nil ELSE api[i - 1].NextToken
          /\ i > 1 => /\ api[i - 1].NextToken # Nil
                      /\ [requests[i] EXCEPT !.NextToken = Nil] = requests[1]
          /\ requests[i].LogGroupName = fetchArgs.logGroupName
          /\ requests[i].StartTime = 1000000
          /\ requests[i].EndTime = 4600999
          /\ requests[i].FilterPattern = "?Started ?Completed"
    /\ pc = "returned" /\ result.err = Nil
       => /\ api[Len(requests)].NextToken = Nil
          /\ \A i \in 1..(Len(requests) - 1) : api[i].NextToken # Nil
          /\ result.events = EventsOfPages(api, Len(requests))

\* C20 witness: three pages have been fetched and their events returned in
\* the order of the pages
C20_Witness ==
    /\ pc = "returned"
    /\ result.err = Nil
    /\ Len(requests) = 3
    /\ result.events = <<"event1", "event2", "event3">>

\* the outcomes that end the fetching: an error, or an output without NextToken
Terminal(outcome) == outcome.err # Nil \/ outcome.NextToken = Nil

\* the position of the first terminal outcome of the service
FirstTerminal(outcomes) ==
    CHOOSE k \in DOMAIN outcomes :
        Terminal(outcomes[k]) /\ \A j \in 1..(k - 1) : ~Terminal(outcomes[j])

\* C21: when the call for a page fails, FilterLogEventsWithPagination returns
\* that error and nil events, whatever the pages before held, and the failed
\* call is the last one made.
C21_ErrorDiscardsEvents ==
    /\ pc = "returned" /\ api[Len(requests)].err # Nil
       => /\ result.err = api[Len(requests)].err
          /\ result.events = Nil
    /\ pc = "returned" /\ result.err # Nil
       => /\ api[Len(requests)].err = result.err
          /\ \A i \in 1..(Len(requests) - 1) : api[i].err = Nil
    /\ \A i \in 1..(Len(requests) - 1) : api[i].err = Nil

\* C21 witness: the call for the second page has failed after a first page
\* with events, the error was returned without events, and the service had a
\* further outcome that was not asked for
C21_Witness ==
    /\ pc = "returned"
    /\ Len(requests) = 2
    /\ Len(api) = 3
    /\ api[1].Events # <<>>
    /\ allEvents # <<>>
    /\ result.err # Nil
    /\ result.events = Nil

\* the loop of FilterLogEventsWithPagination keeps running until it returns
SpecPaginationFair == SpecPagination /\ WF_vars(NextPagination)

\* C30: when the service answers some call with an error or an output without
\* NextToken, FilterLogEventsWithPagination returns, having made exactly as
\* many calls as it takes to reach the first such outcome, and makes no call
\* afterwards.
C30_ReturnsAtFirstTerminal ==
    <>[](pc = "returned" /\ Len(requests) = FirstTerminal(api))

\* C30 witness: the second call was the first with such an outcome, the
\* function has returned after two calls, and a third outcome was left unasked
C30_Witness ==
    /\ pc = "returned"
    /\ Len(api) = 3
    /\ FirstTerminal(api) = 2
    /\ Len(requests) = 2
    /\ result.err = Nil

-----------------------------------------------------------------------------
(* Properties of the matching                                              *)

\* the positions of the input the loop of MatchRequestPairs has handled
Processed == IF pc = "match" THEN 1..(idx - 1) ELSE DOMAIN entries

IsStarted(i, t) == entries[i].Type = "Started" /\ entries[i].SessionID = t

IsCompleted(i, t) == entries[i].Type = "Completed" /\ entries[i].SessionID = t

\* a Completed entry with token t lies strictly between positions i and j
CompletedBetween(i, j, t) == \E k \in (i + 1)..(j - 1) : IsCompleted(k, t)

\* the Started entry at position i was followed, before any Completed entry
\* of its token, by another handled Started entry of the same token
Replaced(i) ==
    LET t == entries[i].SessionID
    IN /\ IsStarted(i, t)
       /\ t # ""
       /\ \E j \in Processed : j > i /\ IsStarted(j, t) /\ ~CompletedBetween(i, j, t)

\* C22: last-Start-wins.  A Started entry followed by another Started entry
\* of the same non-empty token, with no Completed entry of the token between
\* them, is not the pending one any more and is in no pair; the next Completed
\* entry of the token is paired with the later Started entry.
C22_LastStartWins ==
    /\ \A i \in Processed :
          Replaced(i) =>
             /\ \A p \in DOMAIN pairs : pairs[p].Started.addr # i
             /\ entries[i].SessionID \in DOMAIN startedLogs
                   => startedLogs[entries[i].SessionID].addr # i
    /\ \A j, k \in Processed :
          LET t == entries[j].SessionID
          IN ( /\ j < k /\ t # "" /\ IsStarted(j, t) /\ IsCompleted(k, t)
               /\ ~StartedBetween(j, k, t) /\ ~CompletedBetween(j, k, t) )
             => \E p \in DOMAIN pairs :
                   /\ pairs[p].Started = entries[j]
                   /\ pairs[p].Completed = entries[k]

\* C22 witness: two Started entries of session s1, then its Completed entry;
\* the one pair holds the second Started entry, and its method and path are
\* the ones in the metrics
C22_Witness ==
    /\ pc = "done"
    /\ Len(entries) = 3
    /\ entries[1].Path = "/users/123" /\ entries[1].Method = "GET"
    /\ entries[2].Path = "/users/456" /\ entries[2].Method = "POST"
    /\ IsStarted(1, "s1") /\ IsStarted(2, "s1") /\ IsCompleted(3, "s1")
    /\ Len(pairs) = 1
    /\ pairs[1].Started.addr = 2
    /\ DOMAIN result.PathMetrics = {"/users/:id"}
    /\ result.PathMetrics["/users/:id"].Methods = MapPut(EmptyMap, "POST", 1)

\* the loop of MatchRequestPairs is at a Completed entry whose token is empty
\* or has no pending Started entry
UnpairableCompleted ==
    /\ pc = "match"
    /\ idx <= Len(entries)
    /\ entries[idx].Type = "Completed"
    /\ \/ entries[idx].SessionID = ""
       \/ entries[idx].SessionID \notin DOMAIN startedLogs

\* a handled Started entry with a token, with no handled Started or Completed
\* entry of that token after it, is the pending one of its token
LatestStartedPending ==
    \A j \in Processed :
        LET t == entries[j].SessionID
        IN ( /\ IsStarted(j, t) /\ t # ""
             /\ \A k \in Processed : k > j => ~IsStarted(k, t) /\ ~IsCompleted(k, t) )
           => t \in DOMAIN startedLogs /\ startedLogs[t].addr = j

\* C23: a Completed entry handled when no Started entry is pending for its
\* token, or whose token is empty, forms no pair and leaves the pending map
\* and the pairs as they are; no pair holds a Started entry that comes after
\* its Completed entry, and a later Started entry of the token stays pending
\* until a Completed entry of the token follows it.
C23_UnpairableCompletion ==
    /\ [][UnpairableCompleted => pairs' = pairs /\ startedLogs' = startedLogs]_vars
    /\ [](\A p \in DOMAIN pairs : pairs[p].Started.addr < pairs[p].Completed.addr)
    /\ []LatestStartedPending

\* C23 witness: the Completed entry of session s1 came before its Started
\* entry; no pair was formed and the Started entry is pending at the end
C23_Witness ==
    /\ pc = "done"
    /\ Len(entries) = 2
    /\ IsCompleted(1, "s1") /\ IsStarted(2, "s1")
    /\ pairs = <<>>
    /\ "s1" \in DOMAIN startedLogs
    /\ startedLogs["s1"].addr = 2

\* C28: every pair of MatchRequestPairs holds a Started and a Completed entry
\* of the input with the same non-empty token, the Started entry before the
\* Completed one; no entry is in two pairs; the pairs are in the order of
\* their Completed entries.
C28_PairsWellFormed ==
    /\ \A p \in DOMAIN pairs :
          /\ pairs[p].Started.addr \in DOMAIN entries
          /\ pairs[p].Completed.addr \in DOMAIN entries
          /\ pairs[p].Started = entries[pairs[p].Started.addr]
          /\ pairs[p].Completed = entries[pairs[p].Completed.addr]
          /\ pairs[p].Started.Type = "Started"
          /\ pairs[p].Completed.Type = "Completed"
          /\ pairs[p].Started.SessionID = pairs[p].Completed.SessionID
          /\ pairs[p].Started.SessionID # ""
          /\ pairs[p].Started.addr < pairs[p].Completed.addr
    /\ \A p, q \in DOMAIN pairs :
          p < q =>
             /\ pairs[p].Started.addr # pairs[q].Started.addr
             /\ pairs[p].Completed.addr < pairs[q].Completed.addr

\* C28 witness: two sessions, the second one started later and completed
\* first: its pair is the first of the two
C28_Witness ==
    /\ pc = "done"
    /\ Len(pairs) = 2
    /\ pairs[1].Started.SessionID = "s2"
    /\ pairs[2].Started.SessionID = "s1"
    /\ pairs[1].Started.addr > pairs[2].Started.addr

\* es without its i-th element
RemoveAt(es, i) == SubSeq(es, 1, i - 1) \o SubSeq(es, i + 1, Len(es))

\* the reorderings of es that keep the entries of one session token in their
\* relative order
RECURSIVE Reorderings(_)
Reorderings(es) ==
    IF es = <<>> THEN {<<>>}
    ELSE UNION { {<<es[i]>> \o rest : rest \in Reorderings(RemoveAt(es, i))} :
                 i \in {k \in DOMAIN es :
                          \A j \in 1..(k - 1) : es[j].SessionID # es[k].SessionID} }

\* the count, minimum, maximum, status counts and method counts of each route
CountsOf(metricsMap) ==
    [r \in DOMAIN metricsMap |->
        [Count       |-> metricsMap[r].Count,
         MinTime     |-> metricsMap[r].MinTime,
         MaxTime     |-> metricsMap[r].MaxTime,
         StatusCodes |-> metricsMap[r].StatusCodes,
         Methods     |-> metricsMap[r].Methods]]

\* C29: interleaving independence.  AnalyzeLogs gives the same count, minimum,
\* maximum, status counts and method counts per route for every reordering of
\* the entries that keeps the entries of one session token in their order.
C29_InterleavingIndependence ==
    pc = "done" =>
        \A es \in Reorderings(entries) :
            CountsOf(AnalyzeLogs(es, pathExcluder).PathMetrics)
                = CountsOf(result.PathMetrics)

\* C29 witness: the requests of two sessions interleaved, both paired, with a
\* counted route, and with reorderings other than the input itself
C29_Witness ==
    /\ pc = "done"
    /\ Len(entries) = 4
    /\ IsStarted(1, "s1") /\ IsStarted(2, "s2")
    /\ IsCompleted(3, "s1") /\ IsCompleted(4, "s2")
    /\ Len(pairs) = 2
    /\ DOMAIN result.PathMetrics = {"/users/:id"}
    /\ Cardinality(Reorderings(entries)) = 6

\* the sum of the values of a map of counts
SumOfValues(counts) == SumOver(DOMAIN counts, counts)

\* C27: in every route entry of the map of AggregateMetrics the count is at
\* least 1, and the status counts and the method counts each add up to the
\* count.
C27_CountsAddUp ==
    pc \in {"aggregate", "done"} =>
        \A route \in DOMAIN pathMetrics :
            LET m == pathMetrics[route]
            IN /\ m.Count >= 1
               /\ SumOfValues(m.StatusCodes) = m.Count
               /\ SumOfValues(m.Methods) = m.Count
               /\ \A code \in DOMAIN m.StatusCodes : m.StatusCodes[code] >= 1
               /\ \A method \in DOMAIN m.Methods : m.Methods[method] >= 1

\* C27 witness: AggregateMetrics has returned, of three pairs, one route with
\* two samples of two methods and two status codes
C27_Witness ==
    /\ pc = "done"
    /\ Len(pairs) = 3
    /\ DOMAIN result = {"/users/:id"}
    /\ result["/users/:id"].Count = 2
    /\ result["/users/:id"].Methods = MapPut(MapPut(EmptyMap, "GET", 1), "POST", 1)
    /\ result["/users/:id"].StatusCodes = MapPut(MapPut(EmptyMap, 200, 1), 201, 1)

-----------------------------------------------------------------------------
(* PathExcluder.ShouldExclude on a path                                    *)

MaxRules == 2

\* the rules of the excluders ShouldExclude is called on
RulePool ==
    { ExclusionRule("/health", "", ""),
      ExclusionRule("", "/assets", ""),
      ExclusionRule("", "/rails/active_storage", ""),
      ExclusionRule("", "", "^/api/v[0-9]+/.*"),
      ExclusionRule("", "", "users"),
      ExclusionRule("/users", "/admin", "") }

\* the paths ShouldExclude is called with
ExcludePathPool ==
    { "/health", "/health/check", "/users", "/users/123", "/assets/css/style.css",
      "/assets", "/rails/active_storage/blobs/123", "/rails/active_storage",
      "/rails/application", "/api/v1/users", "/api/v12/", "/api/users",
      "/api/v/users", "/x/api/v1/y", "/admin/users", "/", "" }

\* ShouldExclude: the loop handles rule idx and returns true when it matches
ShouldExcludeStep ==
    /\ pc = "exclude"
    /\ idx <= Len(pathExcluder)
    /\ IF RuleMatches(pathExcluder[idx], inputPath)
       THEN /\ pc' = "returned"
            /\ result' = TRUE
            /\ idx' = idx
       ELSE /\ idx' = idx + 1
            /\ UNCHANGED <<pc, result>>
    /\ UNCHANGED <<pathExcluder, logEvents, logEntries, entries, startedLogs,
                   pairs, pathMetrics, logLine, parsed>>
    /\ UNCHANGED otherVars

\* ShouldExclude: no rule matched, the loop is over and false is returned
ShouldExcludeReturn ==
    /\ pc = "exclude"
    /\ idx > Len(pathExcluder)
    /\ pc' = "returned"
    /\ result' = FALSE
    /\ UNCHANGED <<pathExcluder, logEvents, logEntries, entries, idx, startedLogs,
                   pairs, pathMetrics, logLine, parsed>>
    /\ UNCHANGED otherVars

InitExclude ==
    /\ pc = "exclude"
    /\ pathExcluder \in SeqsUpTo(RulePool, MaxRules) \cup {NewDefaultPathExcluder}
    /\ inputPath \in ExcludePathPool
    /\ outputPath = ""
    /\ idx = 1
    /\ result = Nil
    /\ logEvents = <<>>
    /\ logEntries = <<>>
    /\ entries = <<>>
    /\ startedLogs = EmptyMap
    /\ pairs = <<>>
    /\ pathMetrics = EmptyMap
    /\ logLine = ""
    /\ parsed = Nil
    /\ finished = <<>>
    /\ OutputUnused /\ ConfigUnused /\ CloudWatchUnused

NextExclude ==
    \/ ShouldExcludeStep
    \/ ShouldExcludeReturn

SpecExclude == InitExclude /\ [][NextExclude]_vars

\* rule i of the excluder matches the path handed in: by equality with its
\* exact text, by its prefix, or by its regular expression
MatchesRule(i) ==
    LET rule == pathExcluder[i]
    IN \/ rule.Exact # "" /\ inputPath = rule.Exact
       \/ rule.Prefix # "" /\ Len(rule.Prefix) <= Len(inputPath)
                           /\ SubSeq(inputPath, 1, Len(rule.Prefix)) = rule.Prefix
       \/ rule.Pattern # "" /\ RegexpMatchString(rule.Pattern, inputPath)

\* C26: ShouldExclude returns true iff some rule matches the path, by exact
\* equality, by prefix or by its regular expression; it goes through the
\* rules in list order and returns at the first that matches; the default
\* excluder excludes exactly the paths that start with /rails/active_storage.
C26_FirstMatchingRule ==
    pc = "returned" =>
        /\ result = (\E i \in DOMAIN pathExcluder : MatchesRule(i))
        /\ result = TRUE => MatchesRule(idx) /\ \A i \in 1..(idx - 1) : ~MatchesRule(i)
        /\ result = FALSE => idx = Len(pathExcluder) + 1
        /\ pathExcluder = NewDefaultPathExcluder
              => result = LitAt(inputPath, 1, "/rails/active_storage")
        /\ ( /\ pathExcluder = <<ExclusionRule("", "", "^/api/v[0-9]+/.*")>>
             /\ inputPath \in {"/api/v1/users", "/api/v12/"} ) => result = TRUE
        /\ ( /\ pathExcluder = <<ExclusionRule("", "", "^/api/v[0-9]+/.*")>>
             /\ inputPath \in {"/api/users", "/api/v/users", "/x/api/v1/y"} )
              => result = FALSE

\* C26 witness: of two rules that both match the path, the first one ended
\* the call
C26_Witness ==
    /\ pc = "returned"
    /\ pathExcluder = <<ExclusionRule("", "", "users"), ExclusionRule("/users", "/admin", "")>>
    /\ inputPath = "/admin/users"
    /\ result = TRUE
    /\ idx = 1

====
